---- MODULE Spec2Model ----
(***************************************************************************)
(* A model of the github-rag-demo pipeline: the vector-store client        *)
(* (QdrantService), the repository walker (CodeIndexer), the embedding     *)
(* client (DocumentProcessor) and the two query front ends (POST /ask and  *)
(* the command-line session).                                              *)
(*                                                                         *)
(* The repository holds two QdrantService sources that differ in two       *)
(* places (what initializeCollection does when createCollection fails, and *)
(* whether the stored payload carries _timestamp).  Both are modelled; the *)
(* variable qdrantSource tells which one an execution runs.                *)
(*                                                                         *)
(* It also holds two CodeIndexer sources that differ in how the git        *)
(* process is awaited: part_004 awaits a promisified exec, services/llm.js *)
(* awaits the ChildProcess that exec returns.  The variable indexerSource  *)
(* tells which one an execution runs.                                      *)
(***************************************************************************)
EXTENDS Integers, Sequences, FiniteSets, TLC

VARIABLES
  qdrantSource,  \* which QdrantService source runs: "part_000" or "README"
  now,           \* wall clock in ms (Date.now(), the timers' time base)
  coll,          \* the remote collection: [exists, points]
  calls,         \* the upsertDocument calls, by call slot
  initOp,        \* the initializeCollection call
  lastAttemptAt, \* observer: time of the latest client.upsert request, -1 if none
  minGap,        \* observer: smallest time between two consecutive requests
  overlapped,    \* observer: some upsertDocument call started while another ran
  hist,          \* observer: the latest returned upsert and the points it left
  indexerSource, \* which CodeIndexer source runs: "part_004" or "llm.js"
  repos,         \* GITHUB_REPOS: the configured repositories, in order
  disks,         \* the local directory of each repository
  idx,           \* the indexRepositories call: [pc, i, allDocuments]
  fetch,         \* the git clone / git pull of each repository
  walks,         \* observer: what each traverseDirectory call saw and did
  dp,            \* the DocumentProcessor
  embedCall,     \* observer: the latest generateEmbedding call
  q,             \* the question a front end is answering
  generateContexts, \* observer: the contexts generateAnswer was called with
  splitter,      \* the TokenTextSplitter: [chunkSize, chunkOverlap]
  batch,         \* the documents given to processDocuments
  pd,            \* the processDocuments call: [pc, i, processedDocs, ...]
  run,           \* the indexing run
  sr,            \* observer: the latest searchSimilar call
  llm,           \* the LLMService (or the monolith's generateAnswer) and its latest call
  logs,          \* what the process has written with console.log / console.error
  filterCall,    \* observer: the latest shouldProcessFile call
  proc,          \* a DocumentProcessor whose initialize() calls may overlap
  linkWalk       \* observer: a traverseDirectory call on a tree that may hold links

qdrantVars == <<qdrantSource, now, coll, calls, initOp, lastAttemptAt, minGap,
                overlapped, hist>>

indexerVars == <<indexerSource, repos, disks, idx, fetch, walks>>

\* The calls made on one service, outside a question
serviceVars == <<sr, llm, logs>>

\* The calls made on one function or one object, outside a run
unitVars == <<filterCall, proc, linkWalk>>

queryVars == <<dp, embedCall, q, generateContexts, serviceVars, unitVars>>

pipelineVars == <<splitter, batch, pd, run>>

vars == <<qdrantVars, indexerVars, queryVars, pipelineVars>>

-----------------------------------------------------------------------------
(* Bounds of the model *)

\* number of upsertDocument call slots
NumCalls == 2
\* requests one call may issue before the store stops failing transiently
MaxAttempts == 3
\* the clock stops here
MaxTime == 4500

Calls == 1..NumCalls

-----------------------------------------------------------------------------
(* Program constants *)

RateLimitDelay == 100
RetryBackoff == 2000
LargeDocumentThreshold == 10000

-----------------------------------------------------------------------------
(* Values *)

Ids == {1, 2}

\* A vector and a content string are known by a name and the length of their
\* JSON text.
Vectors == {[name |-> "v1", jsonLen |-> 4000]}

Contents == {[text |-> "short", len |-> 50], [text |-> "long", len |-> 7000]}

Payloads == {[content |-> c] : c \in Contents}

NoPoints == <<>>

\* JSON.stringify of a string: the text between two quotes
JsonStringLen(s) == s.len + 2

\* JSON.stringify({content}): {"content":"..."}
JsonPayloadLen(p) == 11 + JsonStringLen(p.content) + 1

\* JSON.stringify({ id, vector, payload }).length, ids of one digit:
\* {"id":1,"vector":...,"payload":...}
calculateDataSize(id, vector, payload) ==
  6 + 1 + 10 + vector.jsonLen + 11 + JsonPayloadLen(payload) + 1

isLargeDocument(id, vector, payload) ==
  calculateDataSize(id, vector, payload) > LargeDocumentThreshold

\* The payload of the point sent to the store: the caller's payload plus the
\* fields the client adds.
StoredPayloadLegacy(id, vector, payload) ==
  [content |-> payload.content,
   _size |-> calculateDataSize(id, vector, payload)]

StoredPayloadCurrent(id, vector, payload) ==
  [content |-> payload.content,
   _size |-> calculateDataSize(id, vector, payload),
   _timestamp |-> now]

StoredPayload(id, vector, payload) ==
  IF qdrantSource = "README"
  THEN StoredPayloadCurrent(id, vector, payload)
  ELSE StoredPayloadLegacy(id, vector, payload)

\* A point stored under an id made from the clock instead of the caller's id
PointOfClockId(id, vector, payload) ==
  [id |-> now, vector |-> vector.name,
   payload |-> StoredPayload(id, vector, payload)]

\* points: [{ id, vector: Array.from(vector), payload: {...} }]
PointOf(id, vector, payload) ==
  [id |-> id, vector |-> vector.name,
   payload |-> StoredPayload(id, vector, payload)]

\* A store that keeps only the point of the last request
StoreUpsertReplaceAll(points, pt) == [i \in {pt.id} |-> pt]

\* The store's insert-or-replace of one point, keyed by id
StoreUpsert(points, pt) ==
  [i \in (DOMAIN points) \cup {pt.id} |-> IF i = pt.id THEN pt ELSE points[i]]

\* no error thrown
NoError == [prefix |-> "", message |-> ""]

IdleCall ==
  [pc |-> "idle", id |-> 0, vector |-> "none", payload |-> "none",
   point |-> "none", wakeAt |-> 0, attempts |-> 0, errors |-> <<>>,
   thrown |-> NoError]

NoHist == [args |-> <<>>, after |-> NoPoints, repeated |-> FALSE]

Active(c) == calls[c].pc \in {"rateLimit", "inFlight", "backoff"}

InitRunning == initOp.pc \in {"deleting", "creating"}

\* Nothing is awaited: no upsertDocument and no initializeCollection is running.
Quiet == ~InitRunning /\ \A c \in Calls : ~Active(c)

Infinity == MaxTime + 1

Min(a, b) == IF a <= b THEN a ELSE b

-----------------------------------------------------------------------------
(* Initial states: no call is running; the collection is absent, empty, or *)
(* holds a point of an earlier run.                                        *)

OldPoint ==
  [id |-> 1, vector |-> "v0", payload |-> [content |-> [text |-> "old", len |-> 3]]]

InitialCollections ==
  { [exists |-> FALSE, points |-> NoPoints],
    [exists |-> TRUE, points |-> NoPoints],
    [exists |-> TRUE, points |-> StoreUpsert(NoPoints, OldPoint)] }

QdrantInit ==
  /\ qdrantSource \in {"part_000", "README"}
  /\ now = 0
  /\ coll \in InitialCollections
  /\ calls = [c \in Calls |-> IdleCall]
  /\ initOp = [pc |-> "idle", left |-> "none", steps |-> <<>>]
  /\ lastAttemptAt = -1
  /\ minGap = Infinity
  /\ overlapped = FALSE
  /\ hist = NoHist

-----------------------------------------------------------------------------
(* upsertDocument *)

\* await new Promise((resolve) => setTimeout(resolve, 100)) with no delay
rateLimitNoDelay == now

\* rateLimit(): await new Promise((resolve) => setTimeout(resolve, 100));
\* the time at which the timer is due
rateLimit == now + RateLimitDelay

\* A call that refuses a document above the threshold
upsertDocumentStartRejectsLarge(c, id, vector, payload) ==
  /\ calls[c].pc = "idle"
  /\ calls' = [calls EXCEPT ![c] =
       [pc |-> IF isLargeDocument(id, vector, payload) THEN "raised"
               ELSE "rateLimit",
        id |-> id, vector |-> vector, payload |-> payload,
        point |-> "none", wakeAt |-> rateLimit, attempts |-> 0,
        errors |-> <<>>, thrown |-> NoError]]
  /\ overlapped' = (overlapped \/ \E d \in Calls \ {c} : Active(d))
  /\ UNCHANGED <<indexerVars, queryVars, pipelineVars, qdrantSource, now, coll, initOp, lastAttemptAt, minGap, hist>>

\* The call starts: dataSize is computed, the warning is advisory, and the
\* rate-limit timer is set.
upsertDocumentStart(c, id, vector, payload) ==
  /\ calls[c].pc = "idle"
  /\ calls' = [calls EXCEPT ![c] =
       [pc |-> "rateLimit", id |-> id, vector |-> vector, payload |-> payload,
        point |-> "none", wakeAt |-> rateLimit, attempts |-> 0,
        errors |-> <<>>, thrown |-> NoError]]
  /\ overlapped' = (overlapped \/ \E d \in Calls \ {c} : Active(d))
  /\ UNCHANGED <<indexerVars, queryVars, pipelineVars, qdrantSource, now, coll, initOp, lastAttemptAt, minGap, hist>>

\* The rate-limit timer has fired: client.upsert sends the point.
upsertDocumentSend(c) ==
  /\ calls[c].pc = "rateLimit"
  /\ now >= calls[c].wakeAt
  /\ calls' = [calls EXCEPT ![c].pc = "inFlight",
                            ![c].attempts = @ + 1,
                            ![c].point = PointOf(calls[c].id, calls[c].vector,
                                                 calls[c].payload)]
  /\ minGap' = IF lastAttemptAt < 0 THEN minGap
               ELSE Min(minGap, now - lastAttemptAt)
  /\ lastAttemptAt' = now
  /\ UNCHANGED <<indexerVars, queryVars, pipelineVars, qdrantSource, now, coll, initOp, overlapped, hist>>

\* What the store holds once the point of call c is written
Written(c) == [coll EXCEPT !.points = StoreUpsert(coll.points, calls[c].point)]

Args(c) == <<calls[c].id, calls[c].vector, calls[c].payload>>

\* The call returns: was it a repeat of the call that returned before it,
\* with nothing else written in between?
HistAfterReturn(c) ==
  IF hist.args = Args(c)
  THEN [args |-> Args(c), after |-> hist.after, repeated |-> TRUE]
  ELSE [args |-> Args(c), after |-> Written(c).points, repeated |-> FALSE]

\* The store answers success: the call returns the response.
upsertDocumentOk(c) ==
  /\ calls[c].pc = "inFlight"
  /\ coll.exists
  /\ coll' = Written(c)
  /\ hist' = HistAfterReturn(c)
  /\ calls' = [calls EXCEPT ![c].pc = "returned"]
  /\ UNCHANGED <<indexerVars, queryVars, pipelineVars, qdrantSource, now, initOp, lastAttemptAt, minGap, overlapped>>

isRetryableErrorAlways(error) == TRUE

\* error.cause?.code === 'UND_ERR_SOCKET'
isRetryableError(error) == error = "UND_ERR_SOCKET"

\* error.message of an error of client.upsert
ErrorMessage(error) ==
  IF error = "UND_ERR_SOCKET" THEN "fetch failed" ELSE "Bad Request"

\* throw new Error(`Erreur upsert: ${error.message}`) in part_000,
\* throw new Error(`Upsert failed: ${error.message}`) in the README source
UpsertError(error) ==
  [prefix |-> IF qdrantSource = "part_000" THEN "Erreur upsert: "
              ELSE "Upsert failed: ",
   message |-> ErrorMessage(error)]

\* What the catch block does with an error of the store
CatchUpsertError(c, error) ==
  IF isRetryableError(error)
  THEN [calls EXCEPT ![c].pc = "backoff", ![c].wakeAt = now + RetryBackoff,
                     ![c].errors = Append(@, error)]
  ELSE [calls EXCEPT ![c].pc = "raised", ![c].errors = Append(@, error),
                     ![c].thrown = UpsertError(error)]

\* The request fails on the socket; the store may or may not have applied it.
upsertDocumentSocketError(c, applied) ==
  /\ calls[c].pc = "inFlight"
  /\ calls[c].attempts < MaxAttempts
  /\ IF applied /\ coll.exists
     THEN /\ coll' = Written(c)
          /\ hist' = NoHist
     ELSE UNCHANGED <<coll, hist>>
  /\ calls' = CatchUpsertError(c, "UND_ERR_SOCKET")
  /\ UNCHANGED <<indexerVars, queryVars, pipelineVars, qdrantSource, now, initOp, lastAttemptAt, minGap, overlapped>>

\* The store rejects the request (collection missing, bad request, ...).
upsertDocumentOtherError(c) ==
  /\ calls[c].pc = "inFlight"
  /\ calls' = CatchUpsertError(c, "OTHER")
  /\ UNCHANGED <<indexerVars, queryVars, pipelineVars, qdrantSource, now, coll, initOp, lastAttemptAt, minGap,
                 overlapped, hist>>

\* The backoff timer has fired: return this.upsertDocument(...) runs the
\* method again from its first line.
upsertDocumentRetry(c) ==
  /\ calls[c].pc = "backoff"
  /\ now >= calls[c].wakeAt
  /\ calls' = [calls EXCEPT ![c].pc = "rateLimit",
                            ![c].wakeAt = rateLimit]
  /\ UNCHANGED <<indexerVars, queryVars, pipelineVars, qdrantSource, now, coll, initOp, lastAttemptAt, minGap,
                 overlapped, hist>>

\* A caller that awaits every call before it makes the next one
AwaitedUpsertStart(c, id, vector, payload) ==
  /\ Quiet
  /\ upsertDocumentStart(c, id, vector, payload)

\* A caller that starts calls without awaiting the earlier ones (Promise.all)
OverlappingUpsertStart(c, id, vector, payload) ==
  /\ ~InitRunning
  /\ upsertDocumentStart(c, id, vector, payload)

\* Time passes until a pending timer is due.
Tick ==
  /\ \E c \in Calls :
       /\ calls[c].pc \in {"rateLimit", "backoff"}
       /\ calls[c].wakeAt > now
       /\ calls[c].wakeAt <= MaxTime
       /\ now' = calls[c].wakeAt
  /\ UNCHANGED <<indexerVars, queryVars, pipelineVars, qdrantSource, coll, calls, initOp, lastAttemptAt, minGap,
                 overlapped, hist>>

-----------------------------------------------------------------------------
(* initializeCollection *)

initializeCollectionStart ==
  /\ Quiet
  /\ initOp' = [pc |-> "deleting", left |-> "none", steps |-> <<>>]
  /\ UNCHANGED <<indexerVars, queryVars, pipelineVars, qdrantSource, now, coll, calls, lastAttemptAt, minGap,
                 overlapped, hist>>

\* client.deleteCollection succeeds: the collection and its points are gone.
deleteCollectionOk ==
  /\ initOp.pc = "deleting"
  /\ coll' = [exists |-> FALSE, points |-> NoPoints]
  /\ hist' = NoHist
  /\ initOp' = [initOp EXCEPT !.pc = "creating",
                              !.steps = Append(@, [op |-> "delete", ok |-> TRUE])]
  /\ UNCHANGED <<indexerVars, queryVars, pipelineVars, qdrantSource, now, calls, lastAttemptAt, minGap, overlapped>>

\* client.deleteCollection fails (no such collection, or the request failed):
\* the error is swallowed and the store is as it was.
deleteCollectionFails ==
  /\ initOp.pc = "deleting"
  /\ initOp' = [initOp EXCEPT !.pc = "creating",
                              !.steps = Append(@, [op |-> "delete", ok |-> FALSE])]
  /\ UNCHANGED <<indexerVars, queryVars, pipelineVars, qdrantSource, now, coll, calls, lastAttemptAt, minGap,
                 overlapped, hist>>

\* client.createCollection succeeds: a new, empty collection.
createCollectionOk ==
  /\ initOp.pc = "creating"
  /\ ~coll.exists
  /\ coll' = [exists |-> TRUE, points |-> NoPoints]
  /\ initOp' = [pc |-> "returned", left |-> coll',
                steps |-> Append(initOp.steps, [op |-> "create", ok |-> TRUE])]
  /\ UNCHANGED <<indexerVars, queryVars, pipelineVars, qdrantSource, now, calls, lastAttemptAt, minGap, overlapped,
                 hist>>

\* What initializeCollection does when createCollection throws: part_000 logs
\* and returns, the README source logs and rethrows.  initOp.left is the
\* collection as the call leaves it.
AfterCreateFailure == IF qdrantSource = "part_000" THEN "returned" ELSE "raised"

\* client.createCollection fails (the collection exists already, or the
\* request failed).
createCollectionFails ==
  /\ initOp.pc = "creating"
  /\ initOp' = [pc |-> AfterCreateFailure, left |-> coll,
                steps |-> Append(initOp.steps, [op |-> "create", ok |-> FALSE])]
  /\ UNCHANGED <<indexerVars, queryVars, pipelineVars, qdrantSource, now, coll, calls, lastAttemptAt, minGap,
                 overlapped, hist>>

-----------------------------------------------------------------------------

UpsertSteps ==
  \/ \E c \in Calls : upsertDocumentSend(c)
  \/ \E c \in Calls : upsertDocumentOk(c)
  \/ \E c \in Calls, applied \in BOOLEAN : upsertDocumentSocketError(c, applied)
  \/ \E c \in Calls : upsertDocumentOtherError(c)
  \/ \E c \in Calls : upsertDocumentRetry(c)
  \/ Tick

InitializeSteps ==
  \/ initializeCollectionStart
  \/ deleteCollectionOk
  \/ deleteCollectionFails
  \/ createCollectionOk
  \/ createCollectionFails

\* Calls are awaited one after the other.
QdrantNext ==
  \/ \E c \in Calls, id \in Ids, v \in Vectors, p \in Payloads :
       AwaitedUpsertStart(c, id, v, p)
  \/ UpsertSteps
  \/ InitializeSteps

\* Calls may overlap; the collection exists and every call carries the same
\* payload, so that only ids and timing vary.
OverlapInit == QdrantInit /\ coll = [exists |-> TRUE, points |-> NoPoints]

OverlapNext ==
  \/ \E c \in Calls, id \in Ids, v \in Vectors :
       OverlappingUpsertStart(c, id, v, [content |-> [text |-> "short", len |-> 50]])
  \/ UpsertSteps

\* Calls may overlap and carry any id and any payload.
OrderNext ==
  \/ \E c \in Calls, id \in Ids, v \in Vectors, p \in Payloads :
       OverlappingUpsertStart(c, id, v, p)
  \/ UpsertSteps

-----------------------------------------------------------------------------
(* File names are sequences of characters; a path is a sequence of names. *)

N_a_md == <<"a", ".", "M", "D">>
N_lib == <<"l", "i", "b">>
N_b_js == <<"b", ".", "j", "s">>
N_logo_png == <<"l", ".", "p", "n", "g">>
N_node_modules == <<"n", "o", "d", "e", "_", "m", "o", "d", "u", "l", "e", "s">>
N_x_js == <<"x", ".", "j", "s">>
N_z_txt == <<"z", ".", "t", "x", "t">>
N_dist == <<"d", "i", "s", "t">>
N_y_js == <<"y", ".", "j", "s">>

\* The repository root has no name of its own in the tree.
ROOT == <<>>

\* fs.readdirSync: the entries of each directory of a cloned repository
DirEntries ==
  [d \in {ROOT, N_lib, N_dist, N_node_modules} |->
     CASE d = ROOT -> <<N_a_md, N_lib, N_node_modules, N_z_txt>>
       [] d = N_lib -> <<N_b_js, N_dist, N_logo_png>>
       [] d = N_dist -> <<N_y_js>>
       [] d = N_node_modules -> <<N_x_js>>]

DirNames == DOMAIN DirEntries

FileNames == {N_a_md, N_b_js, N_logo_png, N_x_js, N_y_js, N_z_txt}

EntryNames == (DirNames \ {ROOT}) \cup FileNames

\* stat.isDirectory(), stat.isFile()
isDirectory(entry) == entry \in DirNames

isFile(entry) == entry \in FileNames

\* String.prototype.toLowerCase, on the letters the names use
toLowerCase(name) ==
  [i \in 1..Len(name) |->
     CASE name[i] = "M" -> "m"
       [] name[i] = "D" -> "d"
       [] name[i] = "J" -> "j"
       [] name[i] = "S" -> "s"
       [] name[i] = "T" -> "t"
       [] name[i] = "X" -> "x"
       [] OTHER -> name[i]]

\* path.extname: from the last dot of the last path component to the end;
\* none when that component has no dot or its last dot is its first character
basename(name) ==
  LET slashes == {i \in 1..Len(name) : name[i] = "/"}
  IN IF slashes = {} THEN name
     ELSE SubSeq(name, (CHOOSE i \in slashes : \A j \in slashes : j <= i) + 1,
                 Len(name))

extname(name) ==
  LET base == basename(name)
      dots == {i \in 1..Len(base) : base[i] = "."}
  IN IF dots = {} THEN <<>>
     ELSE LET d == CHOOSE i \in dots : \A j \in dots : j <= i
          IN IF d = 1 THEN <<>> ELSE SubSeq(base, d, Len(base))

getFileExtensionAsWritten(filename) == extname(filename)

getFileExtension(filename) == toLowerCase(extname(filename))

FILE_EXTENSIONS ==
  [code |-> { <<".", "j", "s">>, <<".", "t", "s">>, <<".", "j", "s", "x">>,
              <<".", "t", "s", "x">>, <<".", "h", "t", "m", "l">>,
              <<".", "c", "s", "s">>, <<".", "p", "y">>,
              <<".", "j", "a", "v", "a">>, <<".", "g", "o">>, <<".", "r", "s">>,
              <<".", "c">>, <<".", "c", "p", "p">>, <<".", "h">> },
   docs |-> { <<".", "m", "d">>, <<".", "t", "x", "t">>, <<".", "r", "s", "t">> },
   exclude |-> { <<".", "g", "i", "t">>, N_node_modules,
                 <<"_", "_", "p", "y", "c", "a", "c", "h", "e", "_", "_">>,
                 <<"v", "e", "n", "v">>, N_dist,
                 <<"b", "u", "i", "l", "d">> }]

shouldProcessFile(filePath) ==
  getFileExtension(filePath) \in (FILE_EXTENSIONS.code \cup FILE_EXTENSIONS.docs)

shouldExcludeDirectoryNever(dirName) == FALSE

shouldExcludeDirectory(dirName) == dirName \in FILE_EXTENSIONS.exclude

-----------------------------------------------------------------------------
(* shouldProcessFile, called on paths of every shape *)

\* The directory part of a path: none, plain, or with a dot in a name
DirParts ==
  { <<>>, <<"l", "i", "b", "/">>, <<"s", ".", "j", "s", "/">>,
    <<"v", ".", "M", "D", "/", "t", "/">> }

\* The name of a file before its extension
Stems == { <<"a">>, <<".", "x">>, <<"j", "s">>, <<"R", "E", "A", "D", "M", "E">> }

\* The extensions files are given, each with its lower-case form; the empty
\* one is a name with no extension.
Extensions ==
  { [text |-> <<>>, lower |-> <<>>],
    [text |-> <<".", "j", "s">>, lower |-> <<".", "j", "s">>],
    [text |-> <<".", "J", "S">>, lower |-> <<".", "j", "s">>],
    [text |-> <<".", "J", "s">>, lower |-> <<".", "j", "s">>],
    [text |-> <<".", "m", "d">>, lower |-> <<".", "m", "d">>],
    [text |-> <<".", "M", "D">>, lower |-> <<".", "m", "d">>],
    [text |-> <<".", "t", "x", "t">>, lower |-> <<".", "t", "x", "t">>],
    [text |-> <<".", "T", "X", "T">>, lower |-> <<".", "t", "x", "t">>],
    [text |-> <<".", "t", "s", "x">>, lower |-> <<".", "t", "s", "x">>],
    [text |-> <<".", "r", "s", "t">>, lower |-> <<".", "r", "s", "t">>],
    [text |-> <<".", "h">>, lower |-> <<".", "h">>],
    [text |-> <<".", "j", "s", "o", "n">>, lower |-> <<".", "j", "s", "o", "n">>],
    [text |-> <<".", "p", "n", "g">>, lower |-> <<".", "p", "n", "g">>],
    [text |-> <<".", "m">>, lower |-> <<".", "m">>],
    [text |-> <<".", "m", "d", "x">>, lower |-> <<".", "m", "d", "x">>] }

\* What a file holds; shouldProcessFile is given the path only.
FileContents == {"text", "binary"}

NoFilterCall ==
  [made |-> FALSE, dir |-> <<>>, stem |-> <<>>, ext |-> [text |-> <<>>, lower |-> <<>>],
   content |-> "text", result |-> FALSE]

\* shouldProcessFile(filePath) on the path dir + stem + ext of a file
shouldProcessFileCall(dir, stem, ext, content) ==
  /\ ~filterCall.made
  /\ filterCall' = [made |-> TRUE, dir |-> dir, stem |-> stem, ext |-> ext,
            content |-> content,
            result |-> shouldProcessFile(dir \o stem \o ext.text)]
  /\ UNCHANGED <<qdrantVars, indexerVars, pipelineVars, dp, embedCall, q,
                 generateContexts, serviceVars, proc, linkWalk>>

FilterNext ==
  \E dir \in DirParts, stem \in Stems, ext \in Extensions, content \in FileContents :
    shouldProcessFileCall(dir, stem, ext, content)

-----------------------------------------------------------------------------
(* CodeIndexer *)

\* bounds: repositories in the configuration, unreadable entries per repository
MaxRepos == 2
MaxFaults == 1

reposDir == "github_repos"

\* Entries of GITHUB_REPOS; an entry without url or without name is malformed.
RepoEntries ==
  { [name |-> "demo", url |-> "https://github.com/o/demo"],
    [name |-> "semapps", url |-> "https://github.com/o/semapps"],
    [name |-> "nourl", url |-> ""],
    [name |-> "", url |-> "https://github.com/o/noname"] }

\* validateRepoConfig: repo?.url && repo?.name
validateRepoConfig(repo) == repo.url # "" /\ repo.name # ""

RepoLists ==
  { s \in UNION { [1..n -> RepoEntries] : n \in 1..MaxRepos } :
      \A i, j \in DOMAIN s : i # j => s[i] # s[j] }

\* The local directory of a repository: is it there (cloned earlier), and
\* which entries cannot be stat'ed (broken link, vanished file) or read
\* (permission, encoding).
Faults(d) == Cardinality(d.statFails) + Cardinality(d.readFails)

DiskStates ==
  LET few(S) == {x \in SUBSET S : Cardinality(x) <= MaxFaults}
  IN { d \in [present : BOOLEAN, statFails : few(EntryNames),
              readFails : few(FileNames)] : Faults(d) <= MaxFaults }

repoPath(repoName) == <<reposDir, repoName>>

\* path.relative(path.join(this.reposDir, repoName), filePath)
relative(from, to) ==
  IF Len(to) >= Len(from) /\ SubSeq(to, 1, Len(from)) = from
  THEN SubSeq(to, Len(from) + 1, Len(to))
  ELSE <<"..">> \o to

\* processFile: the document of one file
processFile(filePath, repoName) ==
  [repo |-> repoName, path |-> relative(repoPath(repoName), filePath)]

\* The directory a path names
DirOf(dirPath) == IF Len(dirPath) = 2 THEN ROOT ELSE dirPath[Len(dirPath)]

RECURSIVE traverseDirectory(_, _, _, _)
RECURSIVE TraverseEntries(_, _, _, _, _)

\* A result with more directories listed and files read
Seen(r, listed, read) ==
  [r EXCEPT !.listed = @ \cup listed, !.read = @ \cup read]

\* The for loop of traverseDirectory from entry k on.  The result tells
\* whether an exception left the loop, the accumulator, and which
\* directories were listed (readdirSync) and which files read (readFileSync).
TraverseEntries(disk, repoName, dirPath, k, documents) ==
  LET entries == DirEntries[DirOf(dirPath)]
  IN IF k > Len(entries)
     THEN [threw |-> FALSE, documents |-> documents, listed |-> {}, read |-> {}]
     ELSE
       LET entry == entries[k]
           fullPath == Append(dirPath, entry)
       IN IF entry \in disk.statFails
          THEN [threw |-> TRUE, documents |-> documents, listed |-> {},
                read |-> {}]
          ELSE IF isDirectory(entry) /\ ~shouldExcludeDirectory(entry)
          THEN LET sub == traverseDirectory(disk, repoName, fullPath, documents)
               IN IF sub.threw THEN sub
                  ELSE Seen(TraverseEntries(disk, repoName, dirPath, k + 1,
                                            sub.documents),
                            sub.listed, sub.read)
          ELSE IF isFile(entry) /\ shouldProcessFile(entry)
          THEN IF entry \in disk.readFails
               THEN Seen(TraverseEntries(disk, repoName, dirPath, k + 1,
                                         documents),
                         {}, {fullPath})
               ELSE Seen(TraverseEntries(disk, repoName, dirPath, k + 1,
                           Append(documents, processFile(fullPath, repoName))),
                         {}, {fullPath})
          ELSE TraverseEntries(disk, repoName, dirPath, k + 1, documents)

\* fs.readdirSync(dirPath) throws when the directory is not there.
traverseDirectory(disk, repoName, dirPath, documents) ==
  IF ~disk.present
  THEN [threw |-> TRUE, documents |-> documents, listed |-> {}, read |-> {}]
  ELSE Seen(TraverseEntries(disk, repoName, dirPath, 1, documents),
            {dirPath}, {})

\* What indexRepository returns from its walk: the documents, or [] from the
\* catch block.
WalkResult(disk, repoName) ==
  LET r == traverseDirectory(disk, repoName, repoPath(repoName), <<>>)
  IN IF r.threw THEN <<>> ELSE r.documents

NoWalk ==
  [done |-> FALSE, fetch |-> "none", present |-> FALSE, threw |-> FALSE,
   collected |-> <<>>, returned |-> <<>>, listed |-> {}, read |-> {}]

IndexerInit ==
  /\ indexerSource \in {"part_004", "llm.js"}
  /\ repos \in RepoLists
  /\ disks \in [{repos[i].name : i \in DOMAIN repos} -> DiskStates]
  /\ idx = [pc |-> "idle", i |-> 0, allDocuments |-> <<>>]
  /\ fetch = [i \in DOMAIN repos |-> "none"]
  /\ walks = [i \in DOMAIN repos |-> NoWalk]

indexRepositoriesStart ==
  /\ idx.pc = "idle"
  /\ idx' = [pc |-> "loop", i |-> 1, allDocuments |-> <<>>]
  /\ UNCHANGED <<qdrantVars, queryVars, pipelineVars, indexerSource, repos, disks, fetch, walks>>

\* A malformed entry ends the loop.
SkipInvalidRepoEndsRun ==
  /\ idx.pc = "loop"
  /\ idx.i <= Len(repos)
  /\ ~validateRepoConfig(repos[idx.i])
  /\ idx' = [idx EXCEPT !.pc = "done"]
  /\ UNCHANGED <<qdrantVars, queryVars, pipelineVars, indexerSource, repos, disks, fetch, walks>>

\* for (const repo of repos): a malformed entry is skipped with a warning.
SkipInvalidRepo ==
  /\ idx.pc = "loop"
  /\ idx.i <= Len(repos)
  /\ ~validateRepoConfig(repos[idx.i])
  /\ idx' = [idx EXCEPT !.i = @ + 1]
  /\ UNCHANGED <<qdrantVars, queryVars, pipelineVars, indexerSource, repos, disks, fetch, walks>>

\* Where control is after exec(git clone / git pull) has been started:
\* part_004 awaits the promisified exec; llm.js awaits the ChildProcess that
\* child_process.exec returns, which is no promise, and goes on at once.
AfterExecStarted == IF indexerSource = "part_004" THEN "fetching" ELSE "walk"

\* ensureRepoCloned: git clone when the directory is absent, else git pull.
ensureRepoCloned ==
  /\ idx.pc = "loop"
  /\ idx.i <= Len(repos)
  /\ validateRepoConfig(repos[idx.i])
  /\ fetch' = [fetch EXCEPT ![idx.i] = "inFlight"]
  /\ idx' = [idx EXCEPT !.pc = AfterExecStarted]
  /\ UNCHANGED <<qdrantVars, queryVars, pipelineVars, indexerSource, repos, disks, walks>>

Awaited(i) == indexerSource = "part_004" /\ idx.pc = "fetching" /\ idx.i = i

\* git ends with success: the directory is there.
FetchOk(i) ==
  /\ fetch[i] = "inFlight"
  /\ fetch' = [fetch EXCEPT ![i] = "ok"]
  /\ disks' = [disks EXCEPT ![repos[i].name].present = TRUE]
  /\ idx' = IF Awaited(i) THEN [idx EXCEPT !.pc = "settle"] ELSE idx
  /\ UNCHANGED <<qdrantVars, queryVars, pipelineVars, indexerSource, repos, walks>>

FetchFailsEndsRun(i) ==
  /\ fetch[i] = "inFlight"
  /\ fetch' = [fetch EXCEPT ![i] = "failed"]
  /\ idx' = [idx EXCEPT !.pc = "done"]
  /\ UNCHANGED <<qdrantVars, queryVars, pipelineVars, indexerSource, repos, disks, walks>>

\* git ends with an error: the awaiting indexRepository catches it, logs and
\* returns [].
FetchFails(i) ==
  /\ fetch[i] = "inFlight"
  /\ fetch' = [fetch EXCEPT ![i] = "failed"]
  /\ idx' = IF Awaited(i) THEN [idx EXCEPT !.pc = "loop", !.i = @ + 1] ELSE idx
  /\ UNCHANGED <<qdrantVars, queryVars, pipelineVars, indexerSource, repos, disks, walks>>

\* await new Promise((resolve) => setTimeout(resolve, 1000))
Settle ==
  /\ idx.pc = "settle"
  /\ idx' = [idx EXCEPT !.pc = "walk"]
  /\ UNCHANGED <<qdrantVars, queryVars, pipelineVars, indexerSource, repos, disks, fetch, walks>>

\* traverseDirectory(repoPath, repoName) and allDocuments.push(...documents)
Walk ==
  /\ idx.pc = "walk"
  /\ LET name == repos[idx.i].name
         r == traverseDirectory(disks[name], name, repoPath(name), <<>>)
     IN /\ idx' = [idx EXCEPT !.pc = "loop", !.i = @ + 1,
                              !.allDocuments = @ \o WalkResult(disks[name], name)]
        /\ walks' = [walks EXCEPT ![idx.i] =
                       [done |-> TRUE, fetch |-> fetch[idx.i],
                        present |-> disks[name].present, threw |-> r.threw,
                        collected |-> r.documents,
                        returned |-> WalkResult(disks[name], name),
                        listed |-> r.listed, read |-> r.read]]
  /\ UNCHANGED <<qdrantVars, queryVars, pipelineVars, indexerSource, repos, disks, fetch>>

\* return allDocuments
indexRepositoriesReturn ==
  /\ idx.pc = "loop"
  /\ idx.i > Len(repos)
  /\ idx' = [idx EXCEPT !.pc = "done"]
  /\ UNCHANGED <<qdrantVars, queryVars, pipelineVars, indexerSource, repos, disks, fetch, walks>>

IndexerNext ==
  \/ indexRepositoriesStart
  \/ SkipInvalidRepo
  \/ ensureRepoCloned
  \/ \E i \in DOMAIN repos : FetchOk(i)
  \/ \E i \in DOMAIN repos : FetchFails(i)
  \/ Settle
  \/ Walk
  \/ indexRepositoriesReturn

-----------------------------------------------------------------------------
(* traverseDirectory on directory structures that may hold directory links *)

\* The operating system refuses to resolve a path through more links than
\* this; statSync then throws.
MaxLinksFollowed == 2

N_sub == <<"s", "u", "b">>
N_up == <<"u", "p">>

\* A directory structure: which files the root, lib and lib/sub hold, whether
\* lib/sub and node_modules are there, and where the one directory link is
\* and what it points to (always the directory that holds it or one above).
Structures ==
  { t \in [rootFiles : SUBSET {N_a_md, N_logo_png},
           libFiles : SUBSET {N_b_js, N_z_txt},
           sub : {"none", "empty", "file"},
           modules : BOOLEAN,
           link : {"none", "rootToRoot", "libToRoot", "libToLib", "subToLib",
                   "subToRoot"}] :
      t.link \in {"subToLib", "subToRoot"} => t.sub # "none" }

FileEntry(name) == [name |-> name, kind |-> "file", to |-> "none"]
DirEntry(name, dir) == [name |-> name, kind |-> "dir", to |-> dir]
LinkEntry(dir) == [name |-> N_up, kind |-> "link", to |-> dir]

Some(cond, entry) == IF cond THEN <<entry>> ELSE <<>>

\* fs.readdirSync on each directory of structure t, with what statSync
\* tells of each entry
EntriesOf(t) ==
  [d \in {"root", "lib", "sub", "node_modules"} |->
     CASE d = "root" ->
            Some(N_a_md \in t.rootFiles, FileEntry(N_a_md))
            \o <<DirEntry(N_lib, "lib")>>
            \o Some(N_logo_png \in t.rootFiles, FileEntry(N_logo_png))
            \o Some(t.modules, DirEntry(N_node_modules, "node_modules"))
            \o Some(t.link = "rootToRoot", LinkEntry("root"))
       [] d = "lib" ->
            Some(N_b_js \in t.libFiles, FileEntry(N_b_js))
            \o Some(t.sub # "none", DirEntry(N_sub, "sub"))
            \o Some(t.link = "libToRoot", LinkEntry("root"))
            \o Some(t.link = "libToLib", LinkEntry("lib"))
            \o Some(N_z_txt \in t.libFiles, FileEntry(N_z_txt))
       [] d = "sub" ->
            Some(t.sub = "file", FileEntry(N_y_js))
            \o Some(t.link = "subToLib", LinkEntry("lib"))
            \o Some(t.link = "subToRoot", LinkEntry("root"))
       [] d = "node_modules" -> <<FileEntry(N_x_js)>>]

RECURSIVE traverseLinked(_, _, _, _, _, _)
RECURSIVE TraverseLinkedEntries(_, _, _, _, _, _, _)

\* The for loop of traverseDirectory from entry k on, in directory dir
\* reached by dirPath through `followed` links.  statSync follows links: a
\* link to a directory is a directory.
TraverseLinkedEntries(t, repoName, dir, dirPath, followed, k, documents) ==
  LET entries == EntriesOf(t)[dir]
  IN IF k > Len(entries)
     THEN [threw |-> FALSE, documents |-> documents]
     ELSE
       LET entry == entries[k]
           fullPath == Append(dirPath, entry.name)
           through == IF entry.kind = "link" THEN followed + 1 ELSE followed
       IN IF through > MaxLinksFollowed
          THEN [threw |-> TRUE, documents |-> documents]
          ELSE IF entry.kind \in {"dir", "link"} /\ ~shouldExcludeDirectory(entry.name)
          THEN LET sub == traverseLinked(t, repoName, entry.to, fullPath, through,
                                         documents)
               IN IF sub.threw THEN sub
                  ELSE TraverseLinkedEntries(t, repoName, dir, dirPath, followed,
                                             k + 1, sub.documents)
          ELSE IF entry.kind = "file" /\ shouldProcessFile(entry.name)
          THEN TraverseLinkedEntries(t, repoName, dir, dirPath, followed, k + 1,
                                     Append(documents, processFile(fullPath, repoName)))
          ELSE TraverseLinkedEntries(t, repoName, dir, dirPath, followed, k + 1,
                                     documents)

traverseLinked(t, repoName, dir, dirPath, followed, documents) ==
  TraverseLinkedEntries(t, repoName, dir, dirPath, followed, 1, documents)

NoStructure ==
  [rootFiles |-> {}, libFiles |-> {}, sub |-> "none", modules |-> FALSE,
   link |-> "none"]

NoLinkWalk ==
  [done |-> FALSE, structure |-> NoStructure, threw |-> FALSE, documents |-> <<>>]

\* traverseDirectory(repoPath, repoName) on a cloned repository of structure t
traverseStructure(t) ==
  /\ ~linkWalk.done
  /\ LET r == traverseLinked(t, "demo", "root", repoPath("demo"), 0, <<>>)
     IN linkWalk' = [done |-> TRUE, structure |-> t, threw |-> r.threw,
                     documents |-> r.documents]
  /\ UNCHANGED <<qdrantVars, indexerVars, pipelineVars, dp, embedCall, q,
                 generateContexts, serviceVars, filterCall, proc>>

LinkWalkNext == \E t \in Structures : traverseStructure(t)

-----------------------------------------------------------------------------
(* DocumentProcessor *)

NotInitializedError == "Embedding model not initialized. Call initialize() first."
EmbeddingFailedError == "Failed to generate embedding"
InitializationFailedError == "Embedding model initialization failed"

\* constructor: embedder = null, isInitialized = false
NewDocumentProcessor ==
  [pc |-> "idle", isInitialized |-> FALSE, embedder |-> "null",
   initResult |-> "none"]

NoEmbedCall == [made |-> FALSE, initialized |-> FALSE, invoked |-> FALSE, error |-> ""]

\* initialize(): returns at once when already initialized, else starts to
\* load the pipeline.
initializeStart ==
  /\ dp.pc = "idle"
  /\ dp' = IF dp.isInitialized
           THEN [dp EXCEPT !.initResult = "returned"]
           ELSE [dp EXCEPT !.pc = "loading", !.initResult = "none"]
  /\ UNCHANGED <<qdrantVars, indexerVars, pipelineVars, serviceVars, unitVars, embedCall, q, generateContexts>>

pipelineLoaded ==
  /\ dp.pc = "loading"
  /\ dp' = [pc |-> "idle", isInitialized |-> TRUE, embedder |-> "pipeline",
            initResult |-> "returned"]
  /\ UNCHANGED <<qdrantVars, indexerVars, pipelineVars, serviceVars, unitVars, embedCall, q, generateContexts>>

\* The load fails: initialize throws InitializationFailedError.
pipelineFails ==
  /\ dp.pc = "loading"
  /\ dp' = [dp EXCEPT !.pc = "idle", !.initResult = "raised"]
  /\ UNCHANGED <<qdrantVars, indexerVars, pipelineVars, serviceVars, unitVars, embedCall, q, generateContexts>>

NeedsInitializeNever(p) == FALSE

\* if (!this.isInitialized || !this.embedder)
NeedsInitialize(p) == ~p.isInitialized \/ p.embedder = "null"

\* The ways a generateEmbedding call can end: the error it throws ("" when it
\* returns a vector) and whether the embedding service was invoked.
EmbedOutcomes(p) ==
  IF NeedsInitialize(p)
  THEN {[error |-> NotInitializedError, invoked |-> FALSE]}
  ELSE IF p.embedder = "null"
  THEN {[error |-> EmbeddingFailedError, invoked |-> FALSE]}
  ELSE {[error |-> "", invoked |-> TRUE],
        [error |-> EmbeddingFailedError, invoked |-> TRUE]}

EmbedCallOf(p, o) ==
  [made |-> TRUE, initialized |-> p.isInitialized, invoked |-> o.invoked,
   error |-> o.error]

\* generateEmbedding(text), called on the processor in whatever state it is
generateEmbedding ==
  /\ \E o \in EmbedOutcomes(dp) : embedCall' = EmbedCallOf(dp, o)
  /\ UNCHANGED <<qdrantVars, indexerVars, pipelineVars, serviceVars, unitVars, dp, q, generateContexts>>

-----------------------------------------------------------------------------
(* DocumentProcessor.initialize, called while earlier calls are awaiting *)

MaxInitCalls == 2
MaxLoads == 3

InitCalls == 1..MaxInitCalls

IdleInitialize ==
  [pc |-> "idle", invoked |-> FALSE, wasInitialized |-> FALSE, thrown |-> "",
   readyAfter |-> FALSE]

\* constructor: embedder = null, isInitialized = false.  loads counts the
\* invocations of pipeline(), failures those that threw, completed tells
\* whether some initialize() has returned.
NewProcessor ==
  [isInitialized |-> FALSE, embedder |-> "null",
   calls |-> [c \in InitCalls |-> IdleInitialize],
   loads |-> 0, failures |-> 0, completed |-> FALSE,
   embed |-> NoEmbedCall]

\* return this.isInitialized && this.embedder !== null
isReady(p) == p.isInitialized /\ p.embedder # "null"

\* initialize() up to its await: it returns at once when isInitialized is
\* set, else it invokes pipeline() and awaits it.
initialize(c) ==
  /\ proc.calls[c].pc # "loading"
  /\ proc.isInitialized \/ proc.loads < MaxLoads
  /\ proc' =
       IF proc.isInitialized
       THEN [proc EXCEPT !.calls[c] = [pc |-> "returned", invoked |-> FALSE,
                                       wasInitialized |-> TRUE, thrown |-> "",
                                       readyAfter |-> isReady(proc)],
                         !.completed = TRUE]
       ELSE [proc EXCEPT !.calls[c] = [pc |-> "loading", invoked |-> TRUE,
                                       wasInitialized |-> FALSE, thrown |-> "",
                                       readyAfter |-> FALSE],
                         !.loads = @ + 1]
  /\ UNCHANGED <<qdrantVars, indexerVars, pipelineVars, dp, embedCall, q,
                 generateContexts, serviceVars, filterCall, linkWalk>>

\* The load of call c resolves: embedder and isInitialized are set in one
\* turn and the call returns.
initializeLoaded(c) ==
  /\ proc.calls[c].pc = "loading"
  /\ LET after == [proc EXCEPT !.embedder = "pipeline", !.isInitialized = TRUE]
     IN proc' = [after EXCEPT !.calls[c].pc = "returned",
                              !.calls[c].readyAfter = isReady(after),
                              !.completed = TRUE]
  /\ UNCHANGED <<qdrantVars, indexerVars, pipelineVars, dp, embedCall, q,
                 generateContexts, serviceVars, filterCall, linkWalk>>

\* The load of call c rejects: the catch block throws.
initializeLoadFails(c) ==
  /\ proc.calls[c].pc = "loading"
  /\ proc' = [proc EXCEPT !.calls[c].pc = "raised",
                          !.calls[c].thrown = InitializationFailedError,
                          !.calls[c].readyAfter = isReady(proc),
                          !.failures = @ + 1]
  /\ UNCHANGED <<qdrantVars, indexerVars, pipelineVars, dp, embedCall, q,
                 generateContexts, serviceVars, filterCall, linkWalk>>

\* generateEmbedding(text) on the processor in whatever state it is
procGenerateEmbedding ==
  /\ \E o \in EmbedOutcomes(proc) : proc' = [proc EXCEPT !.embed = EmbedCallOf(proc, o)]
  /\ UNCHANGED <<qdrantVars, indexerVars, pipelineVars, dp, embedCall, q,
                 generateContexts, serviceVars, filterCall, linkWalk>>

InitializeNext ==
  \/ \E c \in InitCalls : initialize(c)
  \/ \E c \in InitCalls : initializeLoaded(c)
  \/ \E c \in InitCalls : initializeLoadFails(c)
  \/ procGenerateEmbedding

-----------------------------------------------------------------------------
(* QdrantService.searchSimilar *)

SearchLimit == 5

Range(f) == {f[x] : x \in DOMAIN f}

\* limit = 5 when the caller passes none
DefaultSearchLimit == 5

\* The cosine similarity of a stored vector with the query vector, in
\* hundredths
Score(vector) ==
  CASE vector = "v0" -> 10
    [] vector = "v1" -> 50
    [] vector = "v2" -> 90
    [] OTHER -> 0

NoPayload == [content |-> [text |-> "", len |-> 0]]

\* One result of client.search: the payload is attached when the request
\* says with_payload: true
ScoredPoint(pt, with_payload) ==
  [id |-> pt.id, score |-> Score(pt.vector),
   payload |-> IF with_payload THEN pt.payload ELSE NoPayload]

RECURSIVE RankFrom(_, _, _)
\* The ways to list the n best points of a set, best first
RankFrom(S, n, with_payload) ==
  IF n = 0 \/ S = {} THEN {<<>>}
  ELSE UNION { { <<ScoredPoint(pt, with_payload)>> \o rest :
                   rest \in RankFrom(S \ {pt}, n - 1, with_payload) } :
               pt \in {b \in S : \A o \in S : Score(o.vector) <= Score(b.vector)} }

\* client.search on an existing collection: the limit points of highest
\* score, ordered by descending score
Rankings(points, limit, with_payload) ==
  RankFrom(Range(points), Min(limit, Cardinality(DOMAIN points)), with_payload)

StoreErrors == {"Not found: Collection `github_code` doesn't exist!", "fetch failed"}

\* client.search throws when the collection does not exist, and may throw on
\* a transport failure.
clientSearch(c, limit, with_payload) ==
  IF ~c.exists
  THEN {[raised |-> TRUE, error |-> "Not found: Collection `github_code` doesn't exist!",
         results |-> <<>>]}
  ELSE {[raised |-> FALSE, error |-> "", results |-> r] :
          r \in Rankings(c.points, limit, with_payload)}
       \cup {[raised |-> TRUE, error |-> "fetch failed", results |-> <<>>]}

searchSimilarSwallows(c, limit) ==
  {IF s.raised THEN [raised |-> FALSE, error |-> "", results |-> <<>>] ELSE s :
     s \in clientSearch(c, limit, TRUE)}

\* A searchSimilar that asks the store for every point
searchSimilarNoLimit(c, limit) ==
  clientSearch(c, Cardinality(DOMAIN c.points), TRUE)

\* searchSimilar: the results, or the error logged and thrown again
searchSimilar(c, limit) == clientSearch(c, limit, TRUE)

\* bounds: the points of a searched collection, the limits a caller passes
MaxPoints == 6
MaxLimit == 2

\* searchSimilar(collectionName, vector) and searchSimilar(collectionName,
\* vector, limit)
LimitArgs ==
  {[given |-> FALSE, limit |-> 0]}
    \cup {[given |-> TRUE, limit |-> n] : n \in 1..MaxLimit}

\* limit = 5 in the parameter list
LimitOf(arg) == IF arg.given THEN arg.limit ELSE DefaultSearchLimit

SearchVectors == {"v1", "v2"}

\* The collections searched: points 1..n, each with one of the vectors
SearchCollections ==
  {[exists |-> FALSE, points |-> NoPoints]}
    \cup { [exists |-> TRUE,
            points |-> [i \in 1..n |->
                          [id |-> i, vector |-> f[i],
                           payload |-> [content |-> [text |-> "short", len |-> 50]]]]] :
           n \in 0..MaxPoints, f \in [1..MaxPoints -> SearchVectors] }

NoSearchCall ==
  [made |-> FALSE, arg |-> [given |-> FALSE, limit |-> 0],
   outcome |-> [raised |-> FALSE, error |-> "", results |-> <<>>]]

\* await qdrant.searchSimilar(collectionName, vector[, limit]).  The call
\* reads the collection and changes nothing, so one call is observed from
\* each collection.
searchSimilarCall(arg) ==
  /\ ~sr.made
  /\ \E s \in searchSimilar(coll, LimitOf(arg)) :
       sr' = [made |-> TRUE, arg |-> arg, outcome |-> s]
  /\ UNCHANGED <<qdrantVars, indexerVars, pipelineVars, unitVars, dp, embedCall, q,
                 generateContexts, llm, logs>>

SearchNext == \E arg \in LimitArgs : searchSimilarCall(arg)

-----------------------------------------------------------------------------
(* LLMService.generateAnswer *)

\* Messages of the errors hf.textGeneration throws
GenerationErrors ==
  {"Unauthorized", "Invalid username or password.", "access denied",
   "Error fetching the blob", "access denied: Unauthorized", "timeout"}

\* String.prototype.includes on these messages
includes(message, phrase) ==
  CASE message = "Unauthorized" -> phrase = "Unauthorized"
    [] message = "Invalid username or password." ->
         phrase = "Invalid username or password"
    [] message = "access denied" -> phrase = "access denied"
    [] message = "Error fetching the blob" -> phrase = "fetching the blob"
    [] message = "access denied: Unauthorized" ->
         phrase \in {"access denied", "Unauthorized"}
    [] OTHER -> FALSE

isAuthError(error) ==
  includes(error, "Invalid username or password") \/ includes(error, "Unauthorized")

isModelAccessError(error) ==
  includes(error, "fetching the blob") \/ includes(error, "access denied")

InvalidTokenError == "Invalid HuggingFace token. Please check your configuration."

ModelAccessError ==
  "Model access error. Please ensure you have accepted the model terms on HuggingFace Hub."

\* the error generateAnswer throws for an error of hf.textGeneration
generateAnswerError(error) ==
  IF isAuthError(error)
  THEN InvalidTokenError
  ELSE IF isModelAccessError(error)
  THEN ModelAccessError
  ELSE error

-----------------------------------------------------------------------------
(* LLMService and the console.  Three sources build the generation client:  *)
(* LLMService of services/llm.js, the LLMService at the end of             *)
(* github-rag.js ("debug") and the generateAnswer function inside          *)
(* createQueryAssistant of github-rag.js ("monolith").                     *)

MaxGenerations == 2

\* HF_TOKEN: missing, or a secret
HfTokens == {"", "hf_secretToken"}

\* A logged value is a sequence of the strings it is made of.
Masked == <<"***">>
Bearer(token) == <<"Bearer ", token>>
\* authHeader.replace(this.token, '***')
BearerMasked(token) == <<"Bearer ", "***">>
\* this.token.substring(0, 3)
substring3(token) == <<"hf_">>
\* this.token.length
lengthOf(token) == <<"14">>

LogLine(label, values) == [label |-> label, values |-> values]

NoGeneration ==
  [pc |-> "idle", failure |-> "", result |-> "", thrown |-> "",
   rethrown |-> FALSE]

NoLLMService ==
  [pc |-> "none", source |-> "none", token |-> "", thrown |-> "", n |-> 0,
   call |-> NoGeneration]

LLMQuiet == llm = NoLLMService /\ logs = {}

\* server.js start-up: validateEnvironment exits without HF_TOKEN; the
\* configuration is logged with hfToken: '***'.
serverStart(token) ==
  /\ llm.pc = "none"
  /\ IF token = ""
     THEN /\ llm' = [llm EXCEPT !.pc = "exited"]
          /\ logs' = logs \cup {LogLine("Missing HF_TOKEN in environment variables", {})}
     ELSE /\ llm' = [llm EXCEPT !.pc = "configured", !.token = token]
          /\ logs' = logs \cup {LogLine("Server Configuration:", {Masked})}
  /\ UNCHANGED <<qdrantVars, indexerVars, pipelineVars, unitVars, dp, embedCall, q,
                 generateContexts, sr>>

\* What the constructor logs
ConstructorLogs(source, token) ==
  IF source = "debug"
  THEN {LogLine("Token format:", {lengthOf(token), substring3(token)}),
        LogLine("Token configuration:", {<<token>>, lengthOf(token), Bearer(token)})}
  ELSE {}

MissingTokenError(source) ==
  IF source = "debug" THEN "Token Hugging Face manquant"
  ELSE "Missing HuggingFace API token"

\* new LLMService(model, token): by the server after its start-up, or by a
\* command-line front end with the HF_TOKEN of its environment
newLLMService(source, token) ==
  /\ source \in {"llm.js", "debug"}
  /\ \/ llm.pc = "none"
     \/ llm.pc = "configured" /\ source = "llm.js" /\ token = llm.token
  /\ IF token = ""
     THEN /\ llm' = [llm EXCEPT !.pc = "raised", !.source = source,
                                !.thrown = MissingTokenError(source)]
          /\ UNCHANGED logs
     ELSE /\ llm' = [llm EXCEPT !.pc = "ready", !.source = source,
                                !.token = token]
          /\ logs' = logs \cup ConstructorLogs(source, token)
  /\ UNCHANGED <<qdrantVars, indexerVars, pipelineVars, unitVars, dp, embedCall, q,
                 generateContexts, sr>>

\* createQueryAssistant of github-rag.js: const hf = new HfInference(HF_TOKEN),
\* HF_TOKEN = process.env.HF_TOKEN || ''
createQueryAssistant(token) ==
  /\ llm.pc = "none"
  /\ llm' = [llm EXCEPT !.pc = "ready", !.source = "monolith", !.token = token]
  /\ UNCHANGED <<qdrantVars, indexerVars, pipelineVars, unitVars, dp, embedCall, q,
                 generateContexts, sr, logs>>

\* What generateAnswer logs before the generation request
GenerateAnswerLogs(source, token) ==
  IF source = "debug"
  THEN {LogLine("Debut de la generation de la reponse...", {}),
        LogLine("Header envoye:", {Bearer(token)}),
        LogLine("Requete envoyee:", {BearerMasked(token)})}
  ELSE {}

\* generateAnswer(question, context, repoList) up to the generation request
generateAnswerStart ==
  /\ llm.pc = "ready"
  /\ llm.call.pc # "generating"
  /\ llm.n < MaxGenerations
  /\ llm' = [llm EXCEPT !.n = @ + 1,
                        !.call = [NoGeneration EXCEPT !.pc = "generating"]]
  /\ logs' = logs \cup GenerateAnswerLogs(llm.source, llm.token)
  /\ UNCHANGED <<qdrantVars, indexerVars, pipelineVars, unitVars, dp, embedCall, q,
                 generateContexts, sr>>

\* hf.textGeneration answers: return response.generated_text.trim()
textGenerationOk ==
  /\ llm.call.pc = "generating"
  /\ llm' = [llm EXCEPT !.call.pc = "returned", !.call.result = "generated"]
  /\ UNCHANGED <<qdrantVars, indexerVars, pipelineVars, unitVars, dp, embedCall, q,
                 generateContexts, sr, logs>>

ApologyText == "Desole, j'ai rencontre une erreur lors de la generation de la reponse."

\* The catch block of generateAnswer, by source: the call as it ends
CatchGenerationError(source, error) ==
  IF source = "monolith"
  THEN [pc |-> "returned", failure |-> error, result |-> ApologyText,
        thrown |-> "", rethrown |-> FALSE]
  ELSE IF source = "llm.js"
  THEN [pc |-> "raised", failure |-> error, result |-> "",
        thrown |-> generateAnswerError(error),
        rethrown |-> ~isAuthError(error) /\ ~isModelAccessError(error)]
  ELSE IF includes(error, "Invalid username or password")
  THEN [pc |-> "raised", failure |-> error, result |-> "",
        thrown |-> "Token Hugging Face invalide. Veuillez verifier votre configuration.",
        rethrown |-> FALSE]
  ELSE IF includes(error, "fetching the blob")
  THEN [pc |-> "raised", failure |-> error, result |-> "",
        thrown |-> "Erreur d'acces au modele.", rethrown |-> FALSE]
  ELSE [pc |-> "raised", failure |-> error, result |-> "", thrown |-> error,
        rethrown |-> TRUE]

\* What the catch block logs
CatchLogs(source, error) ==
  IF source = "monolith"
  THEN {LogLine("Erreur lors de la generation de la reponse:", {<<error>>})}
  ELSE IF source = "debug"
  THEN {LogLine("Erreur LLM detaillee:", {<<error>>})}
  ELSE IF isAuthError(error) \/ isModelAccessError(error) THEN {}
  ELSE {LogLine("LLM Error:", {<<error>>})}

\* hf.textGeneration throws
textGenerationFails(error) ==
  /\ llm.call.pc = "generating"
  /\ llm' = [llm EXCEPT !.call = CatchGenerationError(llm.source, error)]
  /\ logs' = logs \cup CatchLogs(llm.source, error)
  /\ UNCHANGED <<qdrantVars, indexerVars, pipelineVars, unitVars, dp, embedCall, q,
                 generateContexts, sr>>

AuthenticationTestError == "Erreur d'authentification: Invalid credentials"

\* The debug source first asks whoami-v2 with the token; when the answer is
\* not ok it throws inside the try block, and the catch block logs and
\* rethrows.
authenticationTestFails ==
  /\ llm.call.pc = "generating"
  /\ llm.source = "debug"
  /\ llm' = [llm EXCEPT !.call = CatchGenerationError("debug", AuthenticationTestError)]
  /\ logs' = logs \cup CatchLogs("debug", AuthenticationTestError)
                   \cup {LogLine("Response complete:", {<<"Invalid credentials">>})}
  /\ UNCHANGED <<qdrantVars, indexerVars, pipelineVars, unitVars, dp, embedCall, q,
                 generateContexts, sr>>

LLMNext ==
  \/ \E token \in HfTokens : serverStart(token)
  \/ \E source \in {"llm.js", "debug"}, token \in HfTokens : newLLMService(source, token)
  \/ \E token \in HfTokens : createQueryAssistant(token)
  \/ generateAnswerStart
  \/ textGenerationOk
  \/ authenticationTestFails
  \/ \E error \in GenerationErrors : textGenerationFails(error)

-----------------------------------------------------------------------------
(* The query path: POST /ask of server.js and handleQuestion of ask.js *)

\* bound: questions asked in a run
MaxQuestions == 2

FrontEnds == {"server", "cli"}

Questions == {"", " ", "exit", "EXIT", "how"}

\* String.prototype.trim and toLowerCase on the questions
trim(question) == IF question = " " THEN "" ELSE question

questionToLowerCase(question) == IF question = "EXIT" THEN "exit" ELSE question

NoOutcome == [kind |-> "none", status |-> 0, text |-> "", details |-> ""]

IdleQuery ==
  [pc |-> "idle", n |-> 0, frontEnd |-> "none", question |-> "",
   search |-> "none", collExisted |-> FALSE, results |-> <<>>,
   context |-> <<>>, outcome |-> NoOutcome, development |-> FALSE,
   embedded |-> FALSE, failed |-> "none"]

\* res.status(400): the question is missing or blank
InvalidRequest ==
  [kind |-> "invalid", status |-> 400, text |-> "Invalid request",
   details |-> "Question is required"]

\* res.status(404): the search returned nothing
NoRelevantInformation ==
  [kind |-> "noResults", status |-> 404, text |-> "No relevant information found",
   details |-> "Try rephrasing your question"]

\* readlineInterface.close() on 'exit'
SessionClosed ==
  [kind |-> "closed", status |-> 0, text |-> "Au revoir!", details |-> ""]

\* The catch block of the front end: the server answers 500, the session
\* prints the message of the error.
ErrorOutcome(frontEnd, message) ==
  IF frontEnd = "server"
  THEN [kind |-> "error", status |-> 500, text |-> "Internal server error",
        details |-> IF q.development THEN message ELSE ""]
  ELSE [kind |-> "error", status |-> 0, text |-> message, details |-> ""]

\* res.json({ answer, context }) / console.log(answer)
AnswerOutcome(frontEnd) ==
  [kind |-> "answer", status |-> IF frontEnd = "server" THEN 200 ELSE 0,
   text |-> "generated", details |-> ""]

\* searchResults.map(...).join: the context is "" exactly when there is no
\* result; it is kept as the sequence of its parts.
Context(results) == [k \in DOMAIN results |-> results[k].payload.content.text]

UnitQuiet == filterCall = NoFilterCall /\ proc = NewProcessor /\ linkWalk = NoLinkWalk

QueryInit ==
  /\ dp = NewDocumentProcessor
  /\ embedCall = NoEmbedCall
  /\ q = IdleQuery
  /\ generateContexts = {}
  /\ sr = NoSearchCall
  /\ LLMQuiet
  /\ UnitQuiet

\* A question arrives.  Both front ends await documentProcessor.initialize()
\* before they take questions.
Ask(frontEnd, question, development) ==
  /\ q.pc \in {"idle", "done"}
  /\ q.outcome # SessionClosed
  /\ q.n < MaxQuestions
  /\ dp.isInitialized
  /\ q.n > 0 => development = q.development
  /\ LET asked == [IdleQuery EXCEPT !.n = q.n + 1, !.frontEnd = frontEnd,
                                    !.question = question,
                                    !.development = development]
     IN q' = IF frontEnd = "server" /\ trim(question) = ""
             THEN [asked EXCEPT !.pc = "done", !.outcome = InvalidRequest]
             ELSE IF frontEnd = "cli" /\ questionToLowerCase(question) = "exit"
             THEN [asked EXCEPT !.pc = "done", !.outcome = SessionClosed]
             ELSE [asked EXCEPT !.pc = "embed"]
  /\ UNCHANGED <<qdrantVars, indexerVars, pipelineVars, serviceVars, unitVars, dp, embedCall, generateContexts>>

\* await documentProcessor.generateEmbedding(question)
EmbedQuestion ==
  /\ q.pc = "embed"
  /\ \E o \in EmbedOutcomes(dp) :
       /\ embedCall' = EmbedCallOf(dp, o)
       /\ q' = IF o.error = ""
               THEN [q EXCEPT !.pc = "search", !.embedded = TRUE]
               ELSE [q EXCEPT !.pc = "done", !.embedded = TRUE,
                              !.failed = "embed",
                              !.outcome = ErrorOutcome(q.frontEnd, o.error)]
  /\ UNCHANGED <<qdrantVars, indexerVars, pipelineVars, serviceVars, unitVars, dp, generateContexts>>

\* await qdrant.searchSimilar('github_code', embedding.data, 5) and what the
\* front end does with the result: only the server checks for no results.
SearchStep ==
  /\ q.pc = "search"
  /\ \E s \in searchSimilar(coll, SearchLimit) :
       q' = IF s.raised
            THEN [q EXCEPT !.pc = "done", !.search = "raised",
                           !.failed = "search",
                           !.collExisted = coll.exists,
                           !.outcome = ErrorOutcome(q.frontEnd, s.error)]
            ELSE IF q.frontEnd = "server" /\ Len(s.results) = 0
            THEN [q EXCEPT !.pc = "done", !.search = "returned",
                           !.collExisted = coll.exists,
                           !.results = s.results,
                           !.outcome = NoRelevantInformation]
            ELSE [q EXCEPT !.pc = "generate", !.search = "returned",
                           !.collExisted = coll.exists,
                           !.results = s.results,
                           !.context = Context(s.results)]
  /\ UNCHANGED <<qdrantVars, indexerVars, pipelineVars, serviceVars, unitVars, dp, embedCall, generateContexts>>

\* await llm.generateAnswer(question, context, repoList)
GenerateOk ==
  /\ q.pc = "generate"
  /\ generateContexts' = generateContexts \cup {q.context}
  /\ q' = [q EXCEPT !.pc = "done", !.outcome = AnswerOutcome(q.frontEnd)]
  /\ UNCHANGED <<qdrantVars, indexerVars, pipelineVars, serviceVars, unitVars, dp, embedCall>>

GenerateFails(error) ==
  /\ q.pc = "generate"
  /\ generateContexts' = generateContexts \cup {q.context}
  /\ q' = [q EXCEPT !.pc = "done", !.failed = "generate",
                    !.outcome = ErrorOutcome(q.frontEnd, generateAnswerError(error))]
  /\ UNCHANGED <<qdrantVars, indexerVars, pipelineVars, serviceVars, unitVars, dp, embedCall>>

QueryNext ==
  \/ initializeStart
  \/ pipelineLoaded
  \/ pipelineFails
  \/ generateEmbedding
  \/ \E f \in FrontEnds, question \in Questions, development \in BOOLEAN :
       Ask(f, question, development)
  \/ EmbedQuestion
  \/ SearchStep
  \/ \E error \in GenerationErrors : GenerateFails(error)
  \/ GenerateOk

-----------------------------------------------------------------------------
(* TokenTextSplitter and DocumentProcessor.processDocuments *)

\* bounds: documents in a batch, tokens of a document under a small splitter,
\* chunk size of a small splitter
MaxDocs == 2
MaxTokens == 7
MaxChunkSize == 3

\* new TokenTextSplitter({ chunkSize: 1000, chunkOverlap: 200 })
chunkSize == 1000
chunkOverlap == 200

\* The splitter of processDocuments, and smaller ones with
\* chunkOverlap < chunkSize.
Splitters ==
  {[chunkSize |-> chunkSize, chunkOverlap |-> chunkOverlap]}
    \cup {sp \in [chunkSize : 1..MaxChunkSize, chunkOverlap : 0..MaxChunkSize] :
            sp.chunkOverlap < sp.chunkSize}

\* Token counts of the documents tried with a splitter
Lengths(sp) ==
  IF sp.chunkSize = chunkSize
  THEN {0, 1, chunkSize - 1, chunkSize, chunkSize + 1,
        2 * chunkSize - chunkOverlap, 2 * chunkSize + 500}
  ELSE 0..MaxTokens

\* The tokens of a document of n tokens: token i is the i-th one.
Tokens(n) == [i \in 1..n |-> i]

\* A document of the walk with n tokens of content
DocumentOf(file, n) ==
  [pageContent |-> Tokens(n),
   metadata |-> [repo |-> "demo", path |-> file, size |-> n, modified |-> 0]]

Batches(sp) ==
  LET docs == {DocumentOf(f, n) : f \in {<<N_a_md>>, <<N_lib, N_b_js>>},
                                   n \in Lengths(sp)}
  IN { b \in UNION { [1..k -> docs] : k \in 1..MaxDocs } :
         \A i, j \in DOMAIN b : i # j => b[i].metadata.path # b[j].metadata.path }

RECURSIVE WindowsFrom(_, _, _)

WindowsFromNoOverlap(n, start, sp) ==
  LET end == Min(start + sp.chunkSize, n)
  IN IF end = n THEN << [from |-> start, to |-> end] >>
     ELSE << [from |-> start, to |-> end] >>
            \o WindowsFrom(n, start + sp.chunkSize, sp)

WindowsFromPastEnd(n, start, sp) ==
  LET end == Min(start + sp.chunkSize, n)
      next == start + (sp.chunkSize - sp.chunkOverlap)
  IN IF next >= n THEN << [from |-> start, to |-> end] >>
     ELSE << [from |-> start, to |-> end] >> \o WindowsFrom(n, next, sp)

\* The windows of chunkSize tokens from start on, the start advancing by
\* chunkSize - chunkOverlap, until the tokens are covered.
WindowsFrom(n, start, sp) ==
  LET end == Min(start + sp.chunkSize, n)
  IN IF end = n THEN << [from |-> start, to |-> end] >>
     ELSE << [from |-> start, to |-> end] >>
            \o WindowsFrom(n, start + (sp.chunkSize - sp.chunkOverlap), sp)

\* splitText: the token windows of a text; none for the empty text
splitText(tokens, sp) ==
  IF Len(tokens) = 0 THEN <<>>
  ELSE LET w == WindowsFrom(Len(tokens), 0, sp)
       IN [k \in DOMAIN w |-> SubSeq(tokens, w[k].from + 1, w[k].to)]

\* splitDocuments([new Document({ pageContent, metadata })]): one chunk per
\* window, each with the metadata of the document
splitDocuments(doc, sp) ==
  LET texts == splitText(doc.pageContent, sp)
  IN [k \in DOMAIN texts |->
        [pageContent |-> texts[k], metadata |-> doc.metadata]]

\* the indexing run has not started
\* No indexing run has started.
IdleRun ==
  [pc |-> "idle", repos |-> <<>>, r |-> 0, k |-> 0, nextId |-> 0, id |-> 0,
   log |-> <<>>]

IdleProcessDocuments ==
  [pc |-> "idle", i |-> 0, processedDocs |-> <<>>, splits |-> <<>>,
   failed |-> {}]

PipelineQuiet ==
  /\ splitter = [chunkSize |-> chunkSize, chunkOverlap |-> chunkOverlap]
  /\ batch = <<>>
  /\ pd = IdleProcessDocuments
  /\ run = IdleRun

ProcessInit ==
  /\ splitter \in Splitters
  /\ batch \in Batches(splitter)
  /\ pd = IdleProcessDocuments
  /\ run = IdleRun

\* processDocuments(documents): the splitter is made, processedDocs = []
processDocumentsStart ==
  /\ pd.pc = "idle"
  /\ pd' = [IdleProcessDocuments EXCEPT !.pc = "loop", !.i = 1]
  /\ UNCHANGED <<qdrantVars, indexerVars, queryVars, splitter, batch, run>>

splitDocumentsOkPathOnly ==
  /\ pd.pc = "loop"
  /\ pd.i <= Len(batch)
  /\ LET doc == [batch[pd.i] EXCEPT
                   !.metadata = [repo |-> @.repo, path |-> @.path]]
         splits == splitDocuments(doc, splitter)
     IN pd' = [pd EXCEPT !.i = @ + 1,
                         !.processedDocs = @ \o splits,
                         !.splits = Append(@, splits)]
  /\ UNCHANGED <<qdrantVars, indexerVars, queryVars, splitter, batch, run>>

\* const splits = await splitter.splitDocuments([...]);
\* processedDocs.push(...splits)
splitDocumentsOk ==
  /\ pd.pc = "loop"
  /\ pd.i <= Len(batch)
  /\ LET splits == splitDocuments(batch[pd.i], splitter)
     IN pd' = [pd EXCEPT !.i = @ + 1,
                         !.processedDocs = @ \o splits,
                         !.splits = Append(@, splits)]
  /\ UNCHANGED <<qdrantVars, indexerVars, queryVars, splitter, batch, run>>

splitDocumentsFailsRaises ==
  /\ pd.pc = "loop"
  /\ pd.i <= Len(batch)
  /\ pd' = [pd EXCEPT !.pc = "raised", !.failed = @ \cup {pd.i}]
  /\ UNCHANGED <<qdrantVars, indexerVars, queryVars, splitter, batch, run>>

\* splitDocuments throws: the catch block warns and the loop goes on.
splitDocumentsFails ==
  /\ pd.pc = "loop"
  /\ pd.i <= Len(batch)
  /\ pd' = [pd EXCEPT !.i = @ + 1, !.splits = Append(@, <<>>),
                      !.failed = @ \cup {pd.i}]
  /\ UNCHANGED <<qdrantVars, indexerVars, queryVars, splitter, batch, run>>

\* return processedDocs
processDocumentsReturn ==
  /\ pd.pc = "loop"
  /\ pd.i > Len(batch)
  /\ pd' = [pd EXCEPT !.pc = "returned"]
  /\ UNCHANGED <<qdrantVars, indexerVars, queryVars, splitter, batch, run>>

ProcessNext ==
  \/ processDocumentsStart
  \/ splitDocumentsOk
  \/ splitDocumentsFails
  \/ processDocumentsReturn

-----------------------------------------------------------------------------
(* The indexing run: for each repository in turn, every chunk is upserted   *)
(* under the next id of one counter; the collection is initialized first.  *)
(* The run calls QdrantService.initializeCollection and upsertDocument and *)
(* awaits each call.                                                       *)

MaxRunRepos == 2
MaxRunChunks == 2

\* The content of chunk k of repository r
ChunkTexts ==
  << <<"r1c1", "r1c2", "r1c3">>, <<"r2c1", "r2c2", "r2c3">>,
     <<"r3c1", "r3c2", "r3c3">> >>

ChunkPayload(r, k) == [content |-> [text |-> ChunkTexts[r][k], len |-> 50]]

\* The repositories of a run, each known by the number of its chunks
RunInputs ==
  UNION {[1..n -> 0..MaxRunChunks] : n \in 1..MaxRunRepos}

\* The call slot the run uses: it awaits each upsertDocument
RunCall == 1

FirstId == 1

\* run(repositories)
runStart(repositories) ==
  /\ run.pc = "idle"
  /\ run' = [pc |-> "initializing", repos |-> repositories, r |-> 1, k |-> 1,
             nextId |-> FirstId, id |-> 0, log |-> <<>>]
  /\ UNCHANGED <<qdrantVars, indexerVars, queryVars, splitter, batch, pd>>

\* await initializeCollection(...), before the first upsert
runInitializeCollection ==
  /\ run.pc = "initializing"
  /\ initOp.pc = "idle"
  /\ initializeCollectionStart

\* initializeCollection returned: the run goes on to the repositories.
runInitialized ==
  /\ run.pc = "initializing"
  /\ initOp.pc = "returned"
  /\ run' = [run EXCEPT !.pc = "repo"]
  /\ UNCHANGED <<qdrantVars, indexerVars, queryVars, splitter, batch, pd>>

\* initializeCollection threw: the run ends before any upsert.
runInitializeRaised ==
  /\ run.pc = "initializing"
  /\ initOp.pc = "raised"
  /\ run' = [run EXCEPT !.pc = "failed"]
  /\ UNCHANGED <<qdrantVars, indexerVars, queryVars, splitter, batch, pd>>

\* The id of the next chunk, from a counter that starts again with each
\* repository
runAssignIdPerRepository ==
  /\ run.pc = "repo"
  /\ run.r <= Len(run.repos)
  /\ run.k <= run.repos[run.r]
  /\ run' = [run EXCEPT !.pc = "calling", !.id = run.k, !.nextId = @ + 1]
  /\ UNCHANGED <<qdrantVars, indexerVars, queryVars, splitter, batch, pd>>

\* The id of the next chunk: the counter of the run, which then moves on
runAssignId ==
  /\ run.pc = "repo"
  /\ run.r <= Len(run.repos)
  /\ run.k <= run.repos[run.r]
  /\ run' = [run EXCEPT !.pc = "calling", !.id = run.nextId, !.nextId = @ + 1]
  /\ UNCHANGED <<qdrantVars, indexerVars, queryVars, splitter, batch, pd>>

\* await upsertDocument(collection, id, vector, payload) for the chunk
runUpsertDocument ==
  /\ run.pc = "calling"
  /\ calls[RunCall].pc = "idle"
  /\ \E v \in Vectors :
       AwaitedUpsertStart(RunCall, run.id, v, ChunkPayload(run.r, run.k))

LogEntry(ok) == [repo |-> run.r, chunk |-> run.k, id |-> run.id, ok |-> ok]

\* upsertDocument returned: the next chunk of the repository
runUpsertReturned ==
  /\ run.pc = "calling"
  /\ calls[RunCall].pc = "returned"
  /\ run' = [run EXCEPT !.pc = "repo", !.k = @ + 1,
                        !.log = Append(@, LogEntry(TRUE))]
  /\ calls' = [calls EXCEPT ![RunCall] = IdleCall]
  /\ UNCHANGED <<indexerVars, queryVars, splitter, batch, pd, qdrantSource,
                 now, coll, initOp, lastAttemptAt, minGap, overlapped, hist>>

\* upsertDocument threw: the error is caught and logged with the repository
\* name, and the run goes on with the next repository.
runUpsertRaised ==
  /\ run.pc = "calling"
  /\ calls[RunCall].pc = "raised"
  /\ run' = [run EXCEPT !.pc = "repo", !.r = @ + 1, !.k = 1,
                        !.log = Append(@, LogEntry(FALSE))]
  /\ calls' = [calls EXCEPT ![RunCall] = IdleCall]
  /\ UNCHANGED <<indexerVars, queryVars, splitter, batch, pd, qdrantSource,
                 now, coll, initOp, lastAttemptAt, minGap, overlapped, hist>>

\* Every chunk of the repository has been upserted: the next repository
runRepositoryDone ==
  /\ run.pc = "repo"
  /\ run.r <= Len(run.repos)
  /\ run.k > run.repos[run.r]
  /\ run' = [run EXCEPT !.r = @ + 1, !.k = 1]
  /\ UNCHANGED <<qdrantVars, indexerVars, queryVars, splitter, batch, pd>>

\* Every repository has been processed: the run is complete.
runReturn ==
  /\ run.pc = "repo"
  /\ run.r > Len(run.repos)
  /\ run' = [run EXCEPT !.pc = "done"]
  /\ UNCHANGED <<qdrantVars, indexerVars, queryVars, splitter, batch, pd>>

RunNext ==
  \/ \E repositories \in RunInputs : runStart(repositories)
  \/ runInitializeCollection
  \/ deleteCollectionOk
  \/ deleteCollectionFails
  \/ createCollectionOk
  \/ createCollectionFails
  \/ runInitialized
  \/ runInitializeRaised
  \/ runAssignId
  \/ runUpsertDocument
  \/ UpsertSteps
  \/ runUpsertReturned
  \/ runUpsertRaised
  \/ runRepositoryDone
  \/ runReturn

-----------------------------------------------------------------------------
(* Specifications.  Each runs one part of the pipeline; the other parts    *)
(* stay in a fixed initial state.                                          *)

QdrantQuiet ==
  /\ QdrantInit
  /\ qdrantSource = "part_000"
  /\ coll = [exists |-> FALSE, points |-> NoPoints]

IndexerQuiet ==
  /\ indexerSource = "part_004"
  /\ repos = <<[name |-> "demo", url |-> "https://github.com/o/demo"]>>
  /\ disks = [n \in {"demo"} |-> [present |-> FALSE, statFails |-> {}, readFails |-> {}]]
  /\ idx = [pc |-> "idle", i |-> 0, allDocuments |-> <<>>]
  /\ fetch = [i \in {1} |-> "none"]
  /\ walks = [i \in {1} |-> NoWalk]

\* QdrantService, calls awaited one after the other
Init == QdrantInit /\ IndexerQuiet /\ QueryInit /\ PipelineQuiet

Next == QdrantNext

Spec == Init /\ [][Next]_vars

\* QdrantService, overlapping upsertDocument calls
InitOverlap == OverlapInit /\ IndexerQuiet /\ QueryInit /\ PipelineQuiet

SpecOverlap == InitOverlap /\ [][OverlapNext]_vars

\* CodeIndexer, both sources
InitIndexer == QdrantQuiet /\ IndexerInit /\ QueryInit /\ PipelineQuiet

SpecIndexer == InitIndexer /\ [][IndexerNext]_vars

\* CodeIndexer of part_004
InitIndexerAwaited == InitIndexer /\ indexerSource = "part_004"

SpecIndexerAwaited == InitIndexerAwaited /\ [][IndexerNext]_vars

\* The query path over every initial collection
InitQuery == QdrantInit /\ IndexerQuiet /\ QueryInit /\ PipelineQuiet

\* processDocuments over every splitter and batch
InitProcess == QdrantQuiet /\ IndexerQuiet /\ QueryInit /\ ProcessInit

SpecProcess == InitProcess /\ [][ProcessNext]_vars

\* upsertDocument calls of any payload that may overlap
InitOrder == OverlapInit /\ IndexerQuiet /\ QueryInit /\ PipelineQuiet

SpecOrder == InitOrder /\ [][OrderNext]_vars

\* searchSimilar calls on collections of up to MaxPoints points
InitSearch ==
  /\ qdrantSource \in {"part_000", "README"}
  /\ now = 0
  /\ coll \in SearchCollections
  /\ calls = [c \in Calls |-> IdleCall]
  /\ initOp = [pc |-> "idle", left |-> "none", steps |-> <<>>]
  /\ lastAttemptAt = -1
  /\ minGap = Infinity
  /\ overlapped = FALSE
  /\ hist = NoHist
  /\ IndexerQuiet /\ QueryInit /\ PipelineQuiet

SpecSearch == InitSearch /\ [][SearchNext]_vars

\* The generation client, from its construction on
InitLLM == QdrantQuiet /\ IndexerQuiet /\ QueryInit /\ PipelineQuiet

\* shouldProcessFile on one path
InitFilter == QdrantQuiet /\ IndexerQuiet /\ QueryInit /\ PipelineQuiet

SpecFilter == InitFilter /\ [][FilterNext]_vars

\* initialize() calls on one DocumentProcessor, overlapping or not
InitInitialize == QdrantQuiet /\ IndexerQuiet /\ QueryInit /\ PipelineQuiet

SpecInitialize == InitInitialize /\ [][InitializeNext]_vars

\* One walk of one directory structure
InitLinkWalk == QdrantQuiet /\ IndexerQuiet /\ QueryInit /\ PipelineQuiet

SpecLinkWalk == InitLinkWalk /\ [][LinkWalkNext]_vars

SpecLLM == InitLLM /\ [][LLMNext]_vars

\* An indexing run against the store
InitRun == QdrantInit /\ IndexerQuiet /\ QueryInit /\ PipelineQuiet

SpecRun == InitRun /\ [][RunNext]_vars

SpecQuery == InitQuery /\ [][QueryNext]_vars

-----------------------------------------------------------------------------
(* Claims about QdrantService *)

\* C1: no upsertDocument call issues more than two requests to the store,
\* however many consecutive socket errors the store produces: after a second
\* socket error the failure is raised.
C1_AtMostTwoAttempts == \A c \in Calls : calls[c].attempts <= 2

\* C2: whenever initializeCollection returns normally, the collection exists
\* and holds no point, whatever it held before and whatever the delete step
\* did.
C2_ReturnLeavesEmptyCollection ==
  initOp.pc = "returned" =>
    (initOp.left.exists /\ initOp.left.points = NoPoints)

\* The points without the _timestamp the client adds
WithoutTimestamp(points) ==
  [i \in DOMAIN points |->
     [points[i] EXCEPT !.payload =
        [k \in (DOMAIN points[i].payload) \ {"_timestamp"} |->
           points[i].payload[k]]]]

\* C3 as stated: a call that repeats the call before it, with the same
\* (id, vector, payload), leaves the same ids, vectors and stored payloads,
\* client-added fields included.
C3_RepeatLeavesSamePoints == hist.repeated => coll.points = hist.after

\* C3 as amended: a call that repeats the call before it leaves the same ids,
\* the same vectors and the same stored payloads apart from _timestamp.
C3_RepeatLeavesSamePointsUpToTimestamp ==
  hist.repeated => WithoutTimestamp(coll.points) = WithoutTimestamp(hist.after)

\* C3 witness: two calls with the same arguments have returned one after the
\* other, in the source that stamps the payload, and the collection holds
\* the point.
C3_RepeatedUpsertReturned ==
  /\ hist.repeated
  /\ qdrantSource = "README"
  /\ \A c \in Calls : calls[c].pc = "returned"
  /\ coll.points # hist.after

\* C10 as stated: any two requests to the store are at least RateLimitDelay
\* apart, calls that overlap in time included.
C10_RequestsSpaced == minGap >= RateLimitDelay

\* C10 as amended: as long as no upsertDocument call has started while
\* another was running, any two requests to the store are at least
\* RateLimitDelay apart (a call's retry included).
C10_AwaitedRequestsSpaced == ~overlapped => minGap >= RateLimitDelay

\* C10 witness: calls that did not overlap have all sent a request, one of
\* them a retry too.
C10_AwaitedCallsSent ==
  /\ ~overlapped
  /\ \A c \in Calls : calls[c].attempts >= 1
  /\ \E c \in Calls : calls[c].attempts >= 2
  /\ minGap = RateLimitDelay

\* C11: once client.upsert has failed with an error that is not a socket
\* error, the call has ended by throwing an error that carries the message
\* of that error; the failed attempt is its last one and no backoff follows.
\* A call whose first attempt fails this way has made exactly one attempt.
C11_PermanentErrorIsNotRetried ==
  \A c \in Calls :
    (\E k \in DOMAIN calls[c].errors : calls[c].errors[k] = "OTHER") =>
      /\ calls[c].pc = "raised"
      /\ calls[c].errors[Len(calls[c].errors)] = "OTHER"
      /\ calls[c].attempts = Len(calls[c].errors)
      /\ calls[c].thrown.message = ErrorMessage("OTHER")
      /\ calls[c].errors[1] = "OTHER" => calls[c].attempts = 1

\* C11 witness: a call has thrown after one attempt that the store rejected.
C11_RejectedOnFirstAttempt ==
  \E c \in Calls :
    /\ calls[c].pc = "raised"
    /\ calls[c].errors = <<"OTHER">>
    /\ calls[c].attempts = 1
    /\ calls[c].thrown.message = "Bad Request"

\* C12: initializeCollection calls deleteCollection, then createCollection
\* whether the delete succeeded or not, and it returns normally exactly when
\* createCollection succeeded; it throws when createCollection failed.
C12_DeleteThenCreateOrRaise ==
  /\ initOp.pc = "creating" =>
        (Len(initOp.steps) = 1 /\ initOp.steps[1].op = "delete")
  /\ initOp.pc \in {"returned", "raised"} =>
        /\ Len(initOp.steps) = 2
        /\ initOp.steps[1].op = "delete"
        /\ initOp.steps[2].op = "create"
        /\ (initOp.pc = "returned") = initOp.steps[2].ok


\* The calls made with a document above the threshold
LargeCalls ==
  {c \in Calls : calls[c].pc # "idle"
                   /\ isLargeDocument(calls[c].id, calls[c].vector, calls[c].payload)}

\* C26: a call whose document is above the threshold goes on like any
\* other: the point it sends has the caller's id, the whole vector, the
\* caller's payload and _size equal to the size computed from the
\* arguments; it throws only after a request to the store has failed, and
\* it returns only after a request has been made.
C26_LargeDocumentStillUpserted ==
  \A c \in LargeCalls :
    /\ calls[c].attempts >= 1 =>
         /\ calls[c].point.id = calls[c].id
         /\ calls[c].point.vector = calls[c].vector.name
         /\ calls[c].point.payload.content = calls[c].payload.content
         /\ calls[c].point.payload._size
              = calculateDataSize(calls[c].id, calls[c].vector, calls[c].payload)
    /\ calls[c].pc = "raised" =>
         /\ calls[c].attempts >= 1
         /\ Len(calls[c].errors) = calls[c].attempts
    /\ calls[c].pc = "returned" => calls[c].attempts >= 1

\* C26 witness: a call with a document above the threshold has returned and
\* its point is in the collection.
C26_LargeDocumentStored ==
  \E c \in LargeCalls :
    /\ calls[c].pc = "returned"
    /\ coll.points[calls[c].id] = calls[c].point

-----------------------------------------------------------------------------
(* Claims about CodeIndexer *)

\* The qualifying files of a repository, by path relative to its root, in
\* the order of the walk.
QualifyingFiles == << <<N_a_md>>, <<N_lib, N_b_js>>, <<N_z_txt>> >>

\* No entry on the path fails to stat, and the file can be read.
Unaffected(d, p) ==
  /\ \A k \in DOMAIN p : p[k] \notin d.statFails
  /\ p[Len(p)] \notin d.readFails

DocumentsOfUnaffected(d, repoName) ==
  LET kept == SelectSeq(QualifyingFiles, LAMBDA p : Unaffected(d, p))
  IN [k \in DOMAIN kept |-> [repo |-> repoName, path |-> kept[k]]]

\* C4: a walk of a repository directory returns a document for every
\* qualifying file that can itself be stat'ed and read and whose enclosing
\* directories can be stat'ed, whatever fails for other entries.
C4_FailureSkipsOnlyThatEntry ==
  \A i \in DOMAIN walks :
    (walks[i].done /\ walks[i].present) =>
      \A k \in DOMAIN QualifyingFiles :
        Unaffected(disks[repos[i].name], QualifyingFiles[k]) =>
          [repo |-> repos[i].name, path |-> QualifyingFiles[k]]
            \in Range(walks[i].returned)

\* C5: every walk of a repository starts after the git clone or git pull of
\* that repository has ended, with success or not.
C5_WalkAfterFetchCompleted ==
  \A i \in DOMAIN walks : walks[i].done => walks[i].fetch \in {"ok", "failed"}

Succeeded(i) ==
  /\ validateRepoConfig(repos[i])
  /\ fetch[i] = "ok"
  /\ walks[i].done
  /\ ~walks[i].threw

RECURSIVE ExpectedFrom(_)
ExpectedFrom(i) ==
  IF i > Len(repos) THEN <<>>
  ELSE (IF Succeeded(i)
        THEN DocumentsOfUnaffected(disks[repos[i].name], repos[i].name)
        ELSE <<>>) \o ExpectedFrom(i + 1)

\* C6: when indexRepositories of part_004 returns, every well-formed
\* repository has been fetched, every fetched one has been walked, and the
\* result is the documents of the repositories whose fetch and walk did not
\* fail, in list order, with nothing of the others.
C6_FailuresAreIsolated ==
  idx.pc = "done" =>
    /\ \A i \in DOMAIN repos :
         validateRepoConfig(repos[i]) =>
           /\ fetch[i] \in {"ok", "failed"}
           /\ fetch[i] = "ok" => walks[i].done
           /\ fetch[i] = "failed" => ~walks[i].done
    /\ idx.allDocuments = ExpectedFrom(1)

\* C6 witness: the fetch of the first repository failed, the second one was
\* walked and its documents are in the result.
C6_SecondRepositoryIndexedAfterFailure ==
  /\ idx.pc = "done"
  /\ Len(repos) = 2
  /\ fetch[1] = "failed"
  /\ Succeeded(2)
  /\ Len(idx.allDocuments) = 3

\* The exclusion tokens, as directory names
ExclusionTokens ==
  { <<".", "g", "i", "t">>,
    <<"n", "o", "d", "e", "_", "m", "o", "d", "u", "l", "e", "s">>,
    <<"_", "_", "p", "y", "c", "a", "c", "h", "e", "_", "_">>,
    <<"v", "e", "n", "v">>, <<"d", "i", "s", "t">>, <<"b", "u", "i", "l", "d">> }

\* Some component of the path, its last one left out, is an exclusion token.
PassesThroughExcluded(path) ==
  \E k \in 1..(Len(path) - 1) : path[k] \in ExclusionTokens

\* Some component of the path is an exclusion token.
IsInsideExcluded(path) == \E k \in DOMAIN path : path[k] \in ExclusionTokens

\* C13: no document of a walk has a path through a directory named by an
\* exclusion token, at any depth, and the walk lists no such directory and
\* reads no file below one.
C13_ExcludedDirectoriesArePruned ==
  \A i \in DOMAIN walks :
    walks[i].done =>
      /\ \A k \in DOMAIN walks[i].collected :
           ~PassesThroughExcluded(walks[i].collected[k].path)
      /\ \A d \in walks[i].listed :
           ~IsInsideExcluded(relative(repoPath(repos[i].name), d))
      /\ \A f \in walks[i].read :
           ~PassesThroughExcluded(relative(repoPath(repos[i].name), f))

\* C13 witness: a walk went through the whole tree, which holds
\* node_modules/x.js and lib/dist/y.js, and returned the three other files.
C13_WalkedTreeWithExcludedDirectories ==
  \E i \in DOMAIN walks :
    /\ walks[i].done
    /\ ~walks[i].threw
    /\ Len(walks[i].returned) = 3
    /\ Append(repoPath(repos[i].name), N_lib) \in walks[i].listed


\* The well-formed and the malformed entries of the configuration
WellFormed == {i \in DOMAIN repos : validateRepoConfig(repos[i])}
Malformed == DOMAIN repos \ WellFormed

-----------------------------------------------------------------------------
(* Claims about the query path *)

\* C7: generateAnswer is never called with an empty context, and a search
\* that returned nothing ends in the no-results outcome, for both front ends.
C7_EmptySearchGivesNoResults ==
  /\ <<>> \notin generateContexts
  /\ (q.search = "returned" /\ q.results = <<>>) =>
       (q.pc = "done" /\ q.outcome = NoRelevantInformation)

\* C8: a search against a collection that does not exist raises, and the
\* outcome of the question is an error, never the no-results outcome.
C8_MissingCollectionRaises ==
  (q.search # "none" /\ ~q.collExisted) =>
    /\ q.search = "raised"
    /\ q.outcome.kind = "error"
    /\ q.outcome # NoRelevantInformation

\* C8 witness: POST /ask searched a missing collection and answered 500.
C8_ServerSearchedMissingCollection ==
  /\ q.frontEnd = "server"
  /\ q.search = "raised"
  /\ ~q.collExisted
  /\ q.outcome.status = 500

GenericFailures ==
  {[kind |-> "error", status |-> 500, text |-> "Internal server error",
    details |-> d] : d \in StoreErrors \cup {""}}

\* C24: POST /ask answers a blank question with the invalid-request
\* response without calling the embedding, the search or the generation; an
\* empty search result with the no-results response; and a failure of the
\* embedding or of the generation with a response that is neither of these
\* two nor the response given for any other failure.
C24_ThreeDistinctOutcomes ==
  (q.frontEnd = "server" /\ q.pc = "done") =>
    /\ trim(q.question) = "" =>
         /\ q.outcome = InvalidRequest
         /\ ~q.embedded /\ q.search = "none" /\ q.failed = "none"
    /\ (q.search = "returned" /\ q.results = <<>>) =>
         q.outcome = NoRelevantInformation
    /\ q.failed \in {"embed", "generate"} =>
         /\ q.outcome \notin {InvalidRequest, NoRelevantInformation}
         /\ q.outcome \notin GenericFailures
    /\ InvalidRequest # NoRelevantInformation

-----------------------------------------------------------------------------
(* Claims about the splitter and processDocuments *)

\* The documents of the batch that have been split without an error
SplitDone == {i \in DOMAIN pd.splits : i \notin pd.failed}

RECURSIVE Reassemble(_, _, _)
\* The chunks from the k-th on, put end to end, the first ov tokens of each
\* taken off
Reassemble(chunks, k, ov) ==
  IF k > Len(chunks) THEN <<>>
  ELSE SubSeq(chunks[k].pageContent, ov + 1, Len(chunks[k].pageContent))
         \o Reassemble(chunks, k + 1, ov)

\* C14: the chunks of a document are non-empty, each pair of consecutive
\* chunks before the last pair has exactly chunkOverlap tokens in common
\* (the end of one, the start of the next), and the first chunk followed by
\* the others without their first chunkOverlap tokens is the document.
C14_ChunksRoundTrip ==
  \A i \in SplitDone :
    LET chunks == pd.splits[i]
        ov == splitter.chunkOverlap
    IN /\ \A k \in DOMAIN chunks : Len(chunks[k].pageContent) > 0
       /\ \A k \in 1..(Len(chunks) - 2) :
            LET a == chunks[k].pageContent
                b == chunks[k + 1].pageContent
            IN /\ Len(a) >= ov /\ Len(b) >= ov
               /\ SubSeq(a, Len(a) - ov + 1, Len(a)) = SubSeq(b, 1, ov)
               /\ Cardinality(Range(a) \cap Range(b)) = ov
       /\ (IF chunks = <<>> THEN <<>>
           ELSE chunks[1].pageContent \o Reassemble(chunks, 2, ov))
            = batch[i].pageContent

\* C14 witness: a document was cut into three chunks or more by a splitter
\* with an overlap.
C14_DocumentCutInSeveralChunks ==
  \E i \in SplitDone : Len(pd.splits[i]) >= 3 /\ splitter.chunkOverlap > 0

\* The window of a chunk, read from its first and last token
WindowOf(chunk) ==
  [from |-> chunk.pageContent[1] - 1,
   to |-> chunk.pageContent[Len(chunk.pageContent)]]

\* The windows [s, min(s + chunkSize, n)) for s = 0, step, 2 * step, ... up
\* to the first one that ends at n
ExpectedWindows(n, sp) ==
  LET step == sp.chunkSize - sp.chunkOverlap
      before == Cardinality({j \in 0..n : j * step + sp.chunkSize < n})
  IN [k \in 1..(before + 1) |->
        [from |-> (k - 1) * step,
         to |-> Min((k - 1) * step + sp.chunkSize, n)]]

\* C15: the chunks of a document of n tokens are the windows that start at
\* the multiples of chunkSize - chunkOverlap, up to the first window that
\* ends at n; 2500 tokens with 1000 / 200 give [0,1000), [800,1800),
\* [1600,2500).
C15_ChunksAreTheWindows ==
  \A i \in SplitDone :
    LET n == Len(batch[i].pageContent)
        chunks == pd.splits[i]
    IN n >= 1 =>
         /\ \A k \in DOMAIN chunks : Len(chunks[k].pageContent) > 0
         /\ [k \in DOMAIN chunks |-> WindowOf(chunks[k])]
              = ExpectedWindows(n, splitter)
         /\ (n = 2500 /\ splitter.chunkSize = 1000 /\ splitter.chunkOverlap = 200)
              => [k \in DOMAIN chunks |-> WindowOf(chunks[k])]
                   = << [from |-> 0, to |-> 1000], [from |-> 800, to |-> 1800],
                        [from |-> 1600, to |-> 2500] >>

\* C15 witness: a document of 2500 tokens was cut by the 1000 / 200 splitter.
C15_Split2500Tokens ==
  \E i \in SplitDone :
    /\ Len(batch[i].pageContent) = 2500
    /\ splitter = [chunkSize |-> 1000, chunkOverlap |-> 200]
    /\ Len(pd.splits[i]) = 3

RECURSIVE ChunksFrom(_)
\* The chunks of the documents from the i-th on, those that failed left out
ChunksFrom(i) ==
  IF i > Len(batch) THEN <<>>
  ELSE (IF i \in pd.failed THEN <<>> ELSE splitDocuments(batch[i], splitter))
         \o ChunksFrom(i + 1)

-----------------------------------------------------------------------------
(* Claims about the indexing run *)

\* The chunks of the run whose upsertDocument returned
Upserted == {e \in DOMAIN run.log : run.log[e].ok}

\* C18: no two chunks of a run get the same id, whether of one repository
\* or of two, and the collection holds, for every chunk whose upsert
\* returned, one point of its own: the point under the chunk's id carries
\* the chunk's content, and there are as many such points as such chunks.
C18_RunWideCounterGivesOnePointPerChunk ==
  /\ \A d, e \in DOMAIN run.log :
       d # e => run.log[d].id # run.log[e].id
  /\ \A e \in DOMAIN run.log : run.pc = "calling" => run.log[e].id # run.id
  /\ \A e \in Upserted :
       LET entry == run.log[e]
       IN /\ coll.exists
          /\ entry.id \in DOMAIN coll.points
          /\ coll.points[entry.id].payload.content
               = ChunkPayload(entry.repo, entry.chunk).content
  /\ Cardinality({run.log[e].id : e \in Upserted}) = Cardinality(Upserted)

\* C18 witness: a run is complete in which chunks of two repositories were
\* upserted.
C18_TwoRepositoriesUpserted ==
  /\ run.pc = "done"
  /\ \E d, e \in Upserted : run.log[d].repo = 1 /\ run.log[e].repo = 2
  /\ Cardinality(Upserted) >= 3

\* C19: initializeCollection has returned before the first upsert of a run
\* and does not run again during it, and when the run is complete every
\* point of the collection was written by the run: it is the point of a
\* chunk of the run, under that chunk's id.
C19_CompletedRunHoldsOnlyItsPoints ==
  /\ run.pc \in {"repo", "calling", "done"} => initOp.pc = "returned"
  /\ run.pc \in {"idle", "initializing", "failed"} =>
       run.log = <<>> /\ calls[RunCall].pc = "idle"
  /\ run.pc = "done" =>
       \A id \in DOMAIN coll.points :
         \E e \in DOMAIN run.log :
           /\ run.log[e].id = id
           /\ coll.points[id].payload.content
                = ChunkPayload(run.log[e].repo, run.log[e].chunk).content

-----------------------------------------------------------------------------
(* Claims about the order of upserts *)

AllReturned == \A c \in Calls : calls[c].pc = "returned"

DistinctIds == \A c, d \in Calls : c # d => calls[c].id # calls[d].id

\* C20: when every upsertDocument call has returned and the calls had
\* pairwise distinct ids, the points (id, vector, content) of the collection
\* are the points of the calls, whatever the order in which the calls were
\* issued, sent, retried and answered.
C20_PointsDoNotDependOnOrder ==
  (AllReturned /\ DistinctIds) =>
    { [id |-> coll.points[i].id, vector |-> coll.points[i].vector,
       content |-> coll.points[i].payload.content] : i \in DOMAIN coll.points }
      = { [id |-> calls[c].id, vector |-> calls[c].vector.name,
           content |-> calls[c].payload.content] : c \in Calls }

\* C20 witness: calls with distinct ids and different contents overlapped,
\* and all have returned.
C20_OverlappingCallsReturned ==
  /\ AllReturned
  /\ DistinctIds
  /\ overlapped
  /\ \E c, d \in Calls : calls[c].payload # calls[d].payload

-----------------------------------------------------------------------------
(* Claims about searchSimilar *)

\* The points of the collection as the store scores them
Scored == {ScoredPoint(coll.points[i], TRUE) : i \in DOMAIN coll.points}

\* C21: a searchSimilar call that returns gives at most limit results (5
\* when no limit is passed), each a point of the collection with its stored
\* payload, in order of non-increasing score; no point left out scores
\* higher than a point returned, and a collection of limit points or more
\* gives exactly limit results.
C21_AtMostLimitBestFirst ==
  (sr.made /\ ~sr.outcome.raised) =>
    LET results == sr.outcome.results
        k == IF sr.arg.given THEN sr.arg.limit ELSE 5
    IN /\ Len(results) <= k
       /\ \A i \in DOMAIN results :
            /\ results[i] \in Scored
            /\ results[i].payload = coll.points[results[i].id].payload
       /\ \A i, j \in DOMAIN results : i # j => results[i].id # results[j].id
       /\ \A i, j \in DOMAIN results : i < j => results[i].score >= results[j].score
       /\ \A o \in Scored :
            (\A i \in DOMAIN results : results[i].id # o.id) =>
              \A i \in DOMAIN results : results[i].score >= o.score
       /\ Cardinality(DOMAIN coll.points) >= k => Len(results) = k
       /\ Cardinality(DOMAIN coll.points) < k
            => Len(results) = Cardinality(DOMAIN coll.points)

\* C21 witness: a search without a limit on a collection of more than five
\* points of different scores returned five results.
C21_DefaultLimitOnLargerCollection ==
  /\ sr.made /\ ~sr.outcome.raised /\ ~sr.arg.given
  /\ Cardinality(DOMAIN coll.points) > 5
  /\ Len(sr.outcome.results) = 5
  /\ \E i, j \in DOMAIN coll.points : coll.points[i].vector # coll.points[j].vector

-----------------------------------------------------------------------------
(* Claims about LLMService and the console *)

\* C23: in services/llm.js and in the monolith, a generateAnswer call whose
\* generation request failed does not return: it throws the invalid-token
\* error for an authentication failure, the model-access error for a
\* model-access failure, and the error it caught, unchanged, for any other;
\* the two translated errors differ from each other and from the others.
C23_FailedGenerationRaises ==
  (llm.source \in {"llm.js", "monolith"} /\ llm.call.failure # "") =>
    /\ llm.call.pc = "raised"
    /\ isAuthError(llm.call.failure) =>
         llm.call.thrown = InvalidTokenError /\ ~llm.call.rethrown
    /\ (~isAuthError(llm.call.failure) /\ isModelAccessError(llm.call.failure)) =>
         llm.call.thrown = ModelAccessError /\ ~llm.call.rethrown
    /\ (~isAuthError(llm.call.failure) /\ ~isModelAccessError(llm.call.failure)) =>
         /\ llm.call.thrown = llm.call.failure /\ llm.call.rethrown
         /\ llm.call.thrown \notin {InvalidTokenError, ModelAccessError}
    /\ InvalidTokenError # ModelAccessError

\* The values a log line shows that contain the token
Reveals(value, token) == \E i \in DOMAIN value : value[i] = token

\* C25: no line written to the console and no error thrown by the
\* construction of the client, by generateAnswer or by the server start-up
\* contains the HuggingFace token.
C25_NoTokenInLogsOrErrors ==
  llm.token # "" =>
    /\ \A line \in logs : \A value \in line.values : ~Reveals(value, llm.token)
    /\ llm.thrown # llm.token
    /\ llm.call.thrown # llm.token

-----------------------------------------------------------------------------
(* Claims about shouldProcessFile *)

\* The extensions of source files and of documentation, as configured
ProcessedExtensions ==
  { <<".", "j", "s">>, <<".", "t", "s">>, <<".", "j", "s", "x">>,
    <<".", "t", "s", "x">>, <<".", "h", "t", "m", "l">>, <<".", "c", "s", "s">>,
    <<".", "p", "y">>, <<".", "j", "a", "v", "a">>, <<".", "g", "o">>,
    <<".", "r", "s">>, <<".", "c">>, <<".", "c", "p", "p">>, <<".", "h">>,
    <<".", "m", "d">>, <<".", "t", "x", "t">>, <<".", "r", "s", "t">> }

\* C27: shouldProcessFile answers true exactly when the extension the file
\* was given, lower-cased, is a code or a documentation extension, whatever
\* the directory part, the name before the extension, the letter case of the
\* extension and the content of the file; a name with no extension gives
\* false.
C27_ProcessedIffExtensionListed ==
  filterCall.made =>
    /\ filterCall.result <=> filterCall.ext.lower \in ProcessedExtensions
    /\ filterCall.ext.text = <<>> => ~filterCall.result

\* C27 witness: a file with an upper-case documentation extension, under a
\* directory, was accepted.
C27_UpperCaseExtensionAccepted ==
  /\ filterCall.made /\ filterCall.result
  /\ filterCall.ext.text = <<".", "M", "D">>
  /\ filterCall.dir # <<>>

-----------------------------------------------------------------------------
(* Claims about DocumentProcessor.initialize *)

\* C28: as long as no load has failed, pipeline() has been invoked at most
\* once on a DocumentProcessor, whether its initialize() calls overlap or
\* not.
C28_ModelLoadedAtMostOnce ==
  proc.failures = 0 => proc.loads <= 1

\* C29: isReady() is true exactly when some initialize() call has returned,
\* and isInitialized is set exactly when embedder is; an initialize() whose
\* load failed throws the initialization error and leaves isReady() false; a
\* generateEmbedding on a processor that is not initialized throws the
\* not-initialized error; and an initialize() on a processor that is not
\* initialized invokes the load, whatever happened to the calls before it.
C29_ReadyIffInitializeCompleted ==
  /\ isReady(proc) <=> proc.completed
  /\ proc.isInitialized <=> proc.embedder # "null"
  /\ \A c \in InitCalls :
       proc.calls[c].pc = "raised" =>
         /\ proc.calls[c].thrown = InitializationFailedError
         /\ ~proc.calls[c].readyAfter
  /\ (proc.embed.made /\ ~proc.embed.initialized) =>
       proc.embed.error = NotInitializedError
  /\ \A c \in InitCalls :
       proc.calls[c].pc # "idle" =>
         (proc.calls[c].invoked <=> ~proc.calls[c].wasInitialized)

-----------------------------------------------------------------------------
(* Claims about the walk of structures with directory links *)

\* The paths, from the repository root, of the files of a structure that
\* pass shouldProcessFile and lie under no excluded directory
QualifyingPaths(t) ==
  {<<f>> : f \in t.rootFiles \ {N_logo_png}}
  \cup {<<N_lib, f>> : f \in t.libFiles}
  \cup (IF t.sub = "file" THEN {<<N_lib, N_sub, N_y_js>>} ELSE {})

\* C30: on every directory structure, those with a directory link to an
\* ancestor included, the walk ends without an exception and its documents
\* are, one each and none twice, the qualifying files of the structure, with
\* paths from the repository root.
C30_WalkReturnsEachFileOnce ==
  linkWalk.done =>
    /\ ~linkWalk.threw
    /\ {linkWalk.documents[i].path : i \in DOMAIN linkWalk.documents}
         = QualifyingPaths(linkWalk.structure)
    /\ \A i, j \in DOMAIN linkWalk.documents :
         linkWalk.documents[i].path = linkWalk.documents[j].path => i = j

====
